---- MODULE Spec2Model ----
(***************************************************************************)
(* PayrollTracker: the approval workflow, the payroll-item store, the      *)
(* deduction catalog and the settings of the REST server                   *)
(* (server/routes.ts) over the relational store of shared/schema.ts and    *)
(* server/storage.ts (both reproduced in Overview.txt), and the payroll    *)
(* form of the client (client/src/components/payroll-form.tsx) with its    *)
(* calculation of a payroll item.                                          *)
(*                                                                         *)
(* Every HTTP request is a process: it is started by the action of its     *)
(* route, which runs the handler up to its first store call that another   *)
(* request can observe, and finished by the action that runs the rest.     *)
(* The insert into the activities table made by logActivity is taken in    *)
(* the same step as the store call before it: no handler reads that table  *)
(* to decide anything.                                                     *)
(***************************************************************************)
EXTENDS Integers, Sequences, FiniteSets, TLC

\* ---------------------------------------------------------------- bounds
MaxRequests  == 3     \* HTTP requests issued in one behaviour
MaxPayrollRequests == 2  \* of them, in a behaviour of the payroll-item routes
MaxEmployees == 2     \* rows of the employees table (ids 1..MaxEmployees)
MaxPeriods   == 1     \* rows of the payroll_periods table

Requests    == 1..MaxRequests
PayrollRequests == {r \in Requests : r <= MaxPayrollRequests}
EmployeeIds == 1..MaxEmployees
PeriodIds   == 1..MaxPeriods

\* ------------------------------------------------ optional (nullable) values
None      == <<>>
Some(x)   == <<x>>
IsSome(o) == o # <<>>
Val(o)    == o[1]

\* JavaScript truthiness of an optional string, as `!reason` evaluates it.
Truthy(o) == IsSome(o) /\ Val(o) # ""

\* The session user of an authenticated request (req.user.id).
SessionUserId == 1

\* ------------------------------------------------------------- responses
Json(code)     == [kind |-> "json",  status |-> code, name |-> "none"]
ApiError(code) == [kind |-> "error", status |-> code, name |-> "ApiError"]
DbError(name)  == [kind |-> "error", status |-> 0,    name |-> name]
NoResponse     == [kind |-> "none",  status |-> 0,    name |-> "none"]

IsSuccess(res) == res.kind = "json"
IsError(res)   == res.kind = "error"

VARIABLES
  approvals,      \* the approvals table; the row with id i is approvals[i]
  payrollItems,   \* the payroll_items table; the row with id i is payrollItems[i]
  activities,     \* the activities table, in insertion order
  consoleErrors,  \* number of "Failed to log activity" lines on console.error
  req,            \* the HTTP requests: position, input, locals, response
  deductionTypes, \* the deduction_types table; the row with id i is deductionTypes[i]
  deductions,     \* the deductions table (the deduction lines of payroll items)
  settings,       \* the settings table; the row with id i is settings[i]
  employees,      \* the employees table; the row with id e is employees[e]
  itemForm,       \* the values of the payroll-item form of the client
  earlier,        \* an earlier calculation of the form: its inputs and results
  attendance,     \* the attendance table; the row with id i is attendance[i]
  payrollPeriods, \* the payroll_periods table; the row with id i is payrollPeriods[i]
  allowanceTypes, \* the allowance_types table; the row with id i is allowanceTypes[i]
  allowances,     \* the allowances table (the allowance lines of payroll items)
  users,          \* the users table; the row with id i is users[i]
  session         \* the client's session: the id of its logged-in user, if any

\* The catalog and line tables, which the approval and payroll-item routes
\* neither read nor write.
catalog == <<deductionTypes, deductions, settings>>

\* The client's payroll form and the employees it lists, which no route of
\* the model writes.
client == <<employees, itemForm, earlier>>

\* The tables of the attendance, payroll-period, allowance and user routes.
registers == <<attendance, payrollPeriods, allowanceTypes, allowances, users, session>>

vars == <<approvals, payrollItems, activities, consoleErrors, req,
          deductionTypes, deductions, settings, employees, itemForm, earlier,
          attendance, payrollPeriods, allowanceTypes, allowances, users, session>>

IdleRequest ==
  [op |-> "none", pc |-> "idle", arg |-> None, local |-> None,
   overlap |-> {}, res |-> NoResponse]

InFlight == {q \in Requests : req[q].pc \notin {"idle", "done"}}

\* Requests are issued in the order of their numbers; their steps interleave.
CanStart(r) ==
  /\ req[r].pc = "idle"
  /\ \A q \in Requests : q < r => req[q].pc # "idle"

Started(r, op, arg, local, pc) ==
  [op |-> op, pc |-> pc, arg |-> arg, local |-> local,
   overlap |-> InFlight, res |-> NoResponse]

Finished(r, op, arg, res) ==
  [op |-> op, pc |-> "done", arg |-> arg, local |-> None,
   overlap |-> {}, res |-> res]

\* Amounts of the employees table and of the payroll form are counted in
\* 1/6400 of a currency unit, so that the form's division by 160 and its
\* factors 1.5 and 0.15 are exact on whole amounts and whole hours.
Money(x) == x * 6400

\* Compensation of an employee: basic_salary is notNull, hourly_rate nullable.
\* status has the column default 'active'.
CompensationBases ==
  << [basicSalary |-> Money(5000), hourlyRate |-> None,            status |-> "active"],
     [basicSalary |-> 0,           hourlyRate |-> Some(Money(20)), status |-> "active"],
     [basicSalary |-> 0,           hourlyRate |-> None,            status |-> "active"],
     [basicSalary |-> Money(3200), hourlyRate |-> Some(0),         status |-> "active"] >>

DefaultEmployees ==
  [e \in EmployeeIds |-> CompensationBases[((e + 3) % 4) + 1]]

\* The employees tables a behaviour of the payroll form may start from.
EmployeeTables ==
  { [e \in EmployeeIds |-> CompensationBases[((e + k) % 4) + 1]] : k \in 0..3 }

\* defaultValues of useForm for the payroll item, in a form opened to create
\* an item of payroll period 1.
\* The payroll periods the payroll items of the model refer to: drafts, with
\* the column default status and no processed_date.
DefaultPayrollPeriods ==
  [p \in PeriodIds |->
     [startDate |-> p, endDate |-> p, status |-> "draft", processedDate |-> None]]

FormDefaultValues ==
  [payrollPeriodId |-> 1, employeeId |-> 0, basicSalary |-> 0, hoursWorked |-> Some(0),
   overtimeHours |-> 0, overtimeAmount |-> 0, grossPay |-> 0, taxAmount |-> 0,
   otherDeductions |-> 0, netPay |-> 0]

Init ==
  /\ approvals = <<>>
  /\ payrollItems = <<>>
  /\ activities = <<>>
  /\ consoleErrors = 0
  /\ req = [r \in Requests |-> IdleRequest]
  /\ deductionTypes = <<>>
  /\ deductions = <<>>
  /\ settings = <<>>
  /\ employees = DefaultEmployees
  /\ itemForm = FormDefaultValues
  /\ earlier = None
  /\ attendance = <<>>
  /\ payrollPeriods = DefaultPayrollPeriods
  /\ allowanceTypes = <<>>
  /\ allowances = <<>>
  /\ users = <<>>
  /\ session = None

\* ------------------------------------------------------------ logActivity
Activity(action, entityType, entityId, details) ==
  [userId |-> SessionUserId, action |-> action, entityType |-> entityType,
   entityId |-> entityId, details |-> details]

\* Mutant of LogActivity: a failed insert is not reported anywhere.
LogActivitySilent(dbOk, entry) ==
  /\ activities' = IF dbOk THEN Append(activities, entry) ELSE activities
  /\ consoleErrors' = consoleErrors

\* Mutant of LogActivity: the insert replaces the log by its newest entry.
LogActivityNewestOnly(dbOk, entry) ==
  /\ activities' = IF dbOk THEN <<entry>> ELSE activities
  /\ consoleErrors' = IF dbOk THEN consoleErrors ELSE consoleErrors + 1

\* storage.createActivity inside try/catch: when the insert throws (dbOk
\* false) the error goes to console.error and the caller continues.
LogActivity(dbOk, entry) ==
  /\ activities' = IF dbOk THEN Append(activities, entry) ELSE activities
  /\ consoleErrors' = IF dbOk THEN consoleErrors ELSE consoleErrors + 1

\* next(new ApiError('Unauthorized: Please login', 401)) of `authenticate`.
Unauthorized(r, op) ==
  /\ req' = [req EXCEPT ![r] = Finished(r, op, None, ApiError(401))]
  /\ UNCHANGED <<approvals, payrollItems, activities, consoleErrors>>
  /\ UNCHANGED <<catalog, client, registers>>

\* ------------------------------------------------------- POST /approvals
\* Request bodies of POST /approvals.  employeeId refers to an existing
\* employee (foreign key); requestDate is present whenever type is.
OvertimeHours == 2

SubmitBodies ==
  [employeeId : EmployeeIds, type : {Some("overtime")},
   hours : {Some(OvertimeHours)}, status : {None, Some("approved")},
   startDate : {Some("2024-05-01")}, endDate : {None}, amount : {None}, notes : {None}]
  \cup
  [employeeId : {1}, type : {Some("leave")},
   hours : {None}, status : {None},
   startDate : {Some("2024-05-01")}, endDate : {Some("2024-05-03")},
   amount : {None}, notes : {None}]
  \cup
  [employeeId : {1}, type : {None}, hours : {None}, status : {None},
   startDate : {None}, endDate : {None}, amount : {None}, notes : {None}]

\* Bodies of every approval type of the schema comment ("leave, overtime,
\* reimbursement"), each with or without the fields its type is about.
PayloadBodies ==
  [employeeId : {1}, type : {Some("overtime")}, status : {None},
   hours : {None, Some(5)}, startDate : {None, Some("2024-05-01")},
   endDate : {None}, amount : {None}, notes : {None}]
  \cup
  [employeeId : {1}, type : {Some("leave")}, status : {None},
   hours : {None}, startDate : {None, Some("2024-05-01")},
   endDate : {None, Some("2024-05-03")}, amount : {None}, notes : {None}]
  \cup
  [employeeId : {1}, type : {Some("reimbursement")}, status : {None},
   hours : {None}, startDate : {None}, endDate : {None},
   amount : {None, Some(30)}, notes : {None, Some("taxi")}]

\* insertApprovalSchema.parse: employeeId, type and requestDate are required;
\* status, hours, dates, amount and notes are optional; id, approvedBy,
\* approvedDate and rejectedReason are omitted from the schema.
InsertApprovalValid(body) == IsSome(body.type)

\* The row INSERT ... RETURNING gives for a parsed body: a column without a
\* value takes its default (status 'pending') or NULL.
ApprovalRow(body) ==
  [employeeId     |-> body.employeeId,
   type           |-> Val(body.type),
   hours          |-> body.hours,
   startDate      |-> body.startDate,
   endDate        |-> body.endDate,
   amount         |-> body.amount,
   notes          |-> body.notes,
   status         |-> IF IsSome(body.status) THEN Val(body.status) ELSE "pending",
   approvedBy     |-> None,
   approvedDate   |-> None,
   rejectedReason |-> None]

CreateApprovalDetails(row) ==
  <<"Created", row.type, "approval request for employee ID:", ToString(row.employeeId)>>

SubmitApproval(r, body, auth, dbOk) ==
  /\ CanStart(r)
  /\ UNCHANGED <<catalog, client, registers>>
  /\ IF ~auth THEN Unauthorized(r, "submit")
     ELSE IF ~InsertApprovalValid(body) THEN
       /\ req' = [req EXCEPT ![r] = Finished(r, "submit", body, ApiError(400))]
       /\ UNCHANGED <<approvals, payrollItems, activities, consoleErrors>>
     ELSE
       LET row == ApprovalRow(body)
           id  == Len(approvals) + 1
       IN /\ approvals' = Append(approvals, row)
          /\ LogActivity(dbOk, Activity("create", "approval", id, CreateApprovalDetails(row)))
          /\ req' = [req EXCEPT ![r] = Finished(r, "submit", body, Json(201))]
          /\ UNCHANGED payrollItems

\* ---------------------------------------------- storage: approval methods
\* getApproval: the row with that id, or undefined.
ApprovalExists(id) == id \in 1..Len(approvals)

\* updateApproval(id, approvalData): UPDATE approvals SET <approvalData>
\* WHERE id = <id>; the update is unconditional on the row's status.
\* Mutant of UpdateApproval: the update also stamps the approver.
UpdateApprovalStamped(table, id, status) ==
  [table EXCEPT ![id].status = status, ![id].approvedBy = Some(SessionUserId)]

UpdateApproval(table, id, status) ==
  [table EXCEPT ![id].status = status]

\* The :id path parameter: Number(req.params.id) is NaN (None) or a number.
IdParams == {None} \cup {Some(i) : i \in 1..(Len(approvals) + 1)}

\* ------------------------------------------- PUT /approvals/:id/approve
ApproveDetails(approval) ==
  <<"Approved", approval.type, "request for employee ID:", ToString(approval.employeeId)>>

\* The handler up to and including `await storage.getApproval(id)`.
ApproveRead(r, idParam, auth) ==
  /\ CanStart(r)
  /\ UNCHANGED <<approvals, payrollItems, activities, consoleErrors>>
  /\ UNCHANGED <<catalog, client, registers>>
  /\ IF ~auth THEN req' = [req EXCEPT ![r] = Finished(r, "approve", None, ApiError(401))]
     ELSE IF ~IsSome(idParam) THEN
       req' = [req EXCEPT ![r] = Finished(r, "approve", idParam, ApiError(400))]
     ELSE IF ~ApprovalExists(Val(idParam)) THEN
       req' = [req EXCEPT ![r] = Finished(r, "approve", idParam, ApiError(404))]
     ELSE
       req' = [req EXCEPT ![r] =
                 Started(r, "approve", idParam, Some(approvals[Val(idParam)]), "update")]

\* storage.updateApproval(id, {status: 'approved'}), logActivity, res.json.
ApproveUpdate(r, dbOk) ==
  /\ req[r].pc = "update"
  /\ req[r].op = "approve"
  /\ UNCHANGED <<catalog, client, registers>>
  /\ LET id       == Val(req[r].arg)
         approval == Val(req[r].local)
     IN /\ approvals' = UpdateApproval(approvals, id, "approved")
        /\ LogActivity(dbOk, Activity("approve", "approval", id, ApproveDetails(approval)))
        /\ req' = [req EXCEPT ![r].pc = "done", ![r].res = Json(200)]
        /\ UNCHANGED payrollItems

\* -------------------------------------------- PUT /approvals/:id/reject
Reasons == {None, Some(""), Some("late")}

RejectDetails(approval) ==
  <<"Rejected", approval.type, "request for employee ID:", ToString(approval.employeeId)>>

\* Mutant of ReasonMissing: only an absent reason counts as missing.
ReasonMissingOnlyAbsent(reason) == ~IsSome(reason)

\* `if (!reason)`: the reason of the body is required.
ReasonMissing(reason) == ~Truthy(reason)

\* The handler up to and including `await storage.getApproval(id)`.
RejectRead(r, idParam, reason, auth) ==
  LET arg == [id |-> idParam, reason |-> reason]
  IN /\ CanStart(r)
     /\ UNCHANGED <<approvals, payrollItems, activities, consoleErrors>>
     /\ UNCHANGED <<catalog, client, registers>>
     /\ IF ~auth THEN req' = [req EXCEPT ![r] = Finished(r, "reject", None, ApiError(401))]
        ELSE IF ~IsSome(idParam) THEN
          req' = [req EXCEPT ![r] = Finished(r, "reject", arg, ApiError(400))]
        ELSE IF ReasonMissing(reason) THEN
          req' = [req EXCEPT ![r] = Finished(r, "reject", arg, ApiError(400))]
        ELSE IF ~ApprovalExists(Val(idParam)) THEN
          req' = [req EXCEPT ![r] = Finished(r, "reject", arg, ApiError(404))]
        ELSE
          req' = [req EXCEPT ![r] =
                    Started(r, "reject", arg, Some(approvals[Val(idParam)]), "update")]

\* storage.updateApproval(id, {status: 'rejected'}), logActivity, res.json.
RejectUpdate(r, dbOk) ==
  /\ req[r].pc = "update"
  /\ req[r].op = "reject"
  /\ UNCHANGED <<catalog, client, registers>>
  /\ LET id       == Val(req[r].arg.id)
         approval == Val(req[r].local)
     IN /\ approvals' = UpdateApproval(approvals, id, "rejected")
        /\ LogActivity(dbOk, Activity("reject", "approval", id, RejectDetails(approval)))
        /\ req' = [req EXCEPT ![r].pc = "done", ![r].res = Json(200)]
        /\ UNCHANGED payrollItems

\* --------------------------------------------------- POST /payroll-items
\* Amounts are whole currency units.  A body as the payroll form submits it
\* after calculatePayrollValues: netPay = grossPay - taxAmount - otherDeductions.
BasicSalary == 40
TaxAmount   == 6
LargeOtherDeductions == 50

\* The overtime hours and other deductions typed into the form.
FormInputs ==
  { [overtimeHours |-> None,                otherDeductions |-> 0],
    [overtimeHours |-> Some(OvertimeHours), otherDeductions |-> 0],
    [overtimeHours |-> None,                otherDeductions |-> LargeOtherDeductions] }

PayrollItemBodies ==
  { [payrollPeriodId |-> p, employeeId |-> e, basicSalary |-> BasicSalary,
     overtimeHours |-> f.overtimeHours, grossPay |-> Some(BasicSalary),
     taxAmount |-> TaxAmount, otherDeductions |-> f.otherDeductions,
     netPay |-> BasicSalary - TaxAmount - f.otherDeductions] :
      p \in PeriodIds, e \in EmployeeIds, f \in FormInputs }
  \cup
  { [payrollPeriodId |-> 1, employeeId |-> 1, basicSalary |-> BasicSalary,
     overtimeHours |-> None, grossPay |-> None, taxAmount |-> TaxAmount,
     otherDeductions |-> 0, netPay |-> BasicSalary - TaxAmount] }

\* insertPayrollItemSchema.parse: the notNull columns without a default are
\* required and every doublePrecision column is a plain z.number().
InsertPayrollItemValid(body) == IsSome(body.grossPay)

\* The row the insert stores: overtime_hours defaults to 0, status to 'pending'.
PayrollItemRow(body) ==
  [payrollPeriodId |-> body.payrollPeriodId,
   employeeId      |-> body.employeeId,
   basicSalary     |-> body.basicSalary,
   overtimeHours   |-> IF IsSome(body.overtimeHours) THEN Val(body.overtimeHours) ELSE 0,
   grossPay        |-> Val(body.grossPay),
   taxAmount       |-> body.taxAmount,
   otherDeductions |-> body.otherDeductions,
   netPay          |-> body.netPay,
   status          |-> "pending"]

\* Mutant of PeriodEmployeeUnique: the table has no unique constraint.
PeriodEmployeeUnconstrained(table, row) == TRUE

\* unique("period_employee_unique").on(payrollPeriodId, employeeId)
PeriodEmployeeUnique(table, row) ==
  \A i \in 1..Len(table) :
    ~(table[i].payrollPeriodId = row.payrollPeriodId /\ table[i].employeeId = row.employeeId)

CreatePayrollItemDetails(row) ==
  <<"Created payroll item for employee ID:", ToString(row.employeeId),
    "in period ID:", ToString(row.payrollPeriodId)>>

\* authenticate and insertPayrollItemSchema.parse(req.body), up to the await
\* of storage.createPayrollItem.
CreatePayrollItemParse(r, body, auth) ==
  /\ CanStart(r)
  /\ UNCHANGED <<approvals, payrollItems, activities, consoleErrors>>
  /\ UNCHANGED <<catalog, client, registers>>
  /\ IF ~auth THEN
       req' = [req EXCEPT ![r] = Finished(r, "createPayrollItem", None, ApiError(401))]
     ELSE IF ~InsertPayrollItemValid(body) THEN
       req' = [req EXCEPT ![r] = Finished(r, "createPayrollItem", body, ApiError(400))]
     ELSE
       req' = [req EXCEPT ![r] = Started(r, "createPayrollItem", body, None, "insert")]

\* Mutant of CreatePayrollItemInsert: the insert replaces the row that
\* already holds the (period, employee) pair.
CreatePayrollItemUpsert(r, dbOk) ==
  /\ req[r].pc = "insert"
  /\ req[r].op = "createPayrollItem"
  /\ UNCHANGED <<catalog, client, registers>>
  /\ LET row == PayrollItemRow(req[r].arg)
         id  == Len(payrollItems) + 1
         old == {i \in 1..Len(payrollItems) :
                   /\ payrollItems[i].payrollPeriodId = row.payrollPeriodId
                   /\ payrollItems[i].employeeId = row.employeeId}
     IN /\ payrollItems' = IF old = {} THEN Append(payrollItems, row)
                           ELSE [i \in 1..Len(payrollItems) |->
                                   IF i \in old THEN row ELSE payrollItems[i]]
        /\ LogActivity(dbOk, Activity("create", "payrollItem", id, CreatePayrollItemDetails(row)))
        /\ req' = [req EXCEPT ![r].pc = "done", ![r].res = Json(201)]
        /\ UNCHANGED approvals

\* storage.createPayrollItem: the INSERT, which the unique constraint may
\* refuse; then logActivity and res.status(201), or next(error).
CreatePayrollItemInsert(r, dbOk) ==
  /\ req[r].pc = "insert"
  /\ req[r].op = "createPayrollItem"
  /\ UNCHANGED <<catalog, client, registers>>
  /\ LET row == PayrollItemRow(req[r].arg)
         id  == Len(payrollItems) + 1
     IN IF PeriodEmployeeUnique(payrollItems, row) THEN
          /\ payrollItems' = Append(payrollItems, row)
          /\ LogActivity(dbOk, Activity("create", "payrollItem", id, CreatePayrollItemDetails(row)))
          /\ req' = [req EXCEPT ![r].pc = "done", ![r].res = Json(201)]
          /\ UNCHANGED approvals
        ELSE
          /\ req' = [req EXCEPT ![r].pc = "done",
                                ![r].res = DbError("period_employee_unique")]
          /\ UNCHANGED <<approvals, payrollItems, activities, consoleErrors>>

\* ------------------------------------------------------ POST /setup/init-db
\* The catalog rows and the setting POST /setup/init-db stores in an empty
\* database.  defaultValue is a percentage of the gross pay when isPercentage.
SeededDeductionTypes ==
  << [name |-> "Income Tax",       isPercentage |-> TRUE, defaultValue |-> 15, isRequired |-> TRUE],
     [name |-> "Health Insurance", isPercentage |-> TRUE, defaultValue |-> 3,  isRequired |-> TRUE],
     [name |-> "Pension Fund",     isPercentage |-> TRUE, defaultValue |-> 5,  isRequired |-> TRUE] >>

SeededSettings == << [key |-> "tax_rate", value |-> "0.15"] >>

SeededAllowanceTypes ==
  << [name |-> "Transportation",    isTaxable |-> FALSE],
     [name |-> "Meal",              isTaxable |-> FALSE],
     [name |-> "Performance Bonus", isTaxable |-> TRUE] >>

\* The admin user; its password is stored as given, not hashed.
SeededUsers ==
  << [username |-> "admin", password |-> [hashed |-> FALSE, text |-> "admin123"],
      role |-> "admin"] >>

\* The state after POST /setup/init-db on an empty database.
InitSeeded ==
  /\ approvals = <<>>
  /\ payrollItems = <<>>
  /\ activities = <<>>
  /\ consoleErrors = 0
  /\ req = [r \in Requests |-> IdleRequest]
  /\ deductionTypes = SeededDeductionTypes
  /\ deductions = <<>>
  /\ settings = SeededSettings
  /\ employees = DefaultEmployees
  /\ itemForm = FormDefaultValues
  /\ earlier = None
  /\ attendance = <<>>
  /\ payrollPeriods = DefaultPayrollPeriods
  /\ allowanceTypes = SeededAllowanceTypes
  /\ allowances = <<>>
  /\ users = SeededUsers
  /\ session = None

\* ------------------------------------------------- POST /deduction-types
DeductionTypeBodies ==
  { [name |-> "Union Dues", isPercentage |-> FALSE, defaultValue |-> Some(5), isRequired |-> TRUE],
    [name |-> "Income Tax", isPercentage |-> TRUE,  defaultValue |-> Some(20), isRequired |-> TRUE],
    [name |-> "Loan",       isPercentage |-> FALSE, defaultValue |-> None,    isRequired |-> FALSE] }

\* insertDeductionTypeSchema.parse: name and defaultValue are required.
InsertDeductionTypeValid(body) == IsSome(body.defaultValue)

DeductionTypeRow(body) ==
  [name |-> body.name, isPercentage |-> body.isPercentage,
   defaultValue |-> Val(body.defaultValue), isRequired |-> body.isRequired]

\* name: text("name").notNull().unique()
DeductionTypeNameUnique(table, row) ==
  \A i \in 1..Len(table) : table[i].name # row.name

CreateDeductionTypeDetails(row) == <<"Created deduction type:", row.name>>

CreateDeductionType(r, body, auth, dbOk) ==
  /\ CanStart(r)
  /\ UNCHANGED <<approvals, payrollItems, deductions, settings, client, registers>>
  /\ IF ~auth THEN
       /\ req' = [req EXCEPT ![r] = Finished(r, "createDeductionType", None, ApiError(401))]
       /\ UNCHANGED <<deductionTypes, activities, consoleErrors>>
     ELSE IF ~InsertDeductionTypeValid(body) THEN
       /\ req' = [req EXCEPT ![r] = Finished(r, "createDeductionType", body, ApiError(400))]
       /\ UNCHANGED <<deductionTypes, activities, consoleErrors>>
     ELSE
       LET row == DeductionTypeRow(body)
           id  == Len(deductionTypes) + 1
       IN IF DeductionTypeNameUnique(deductionTypes, row) THEN
            /\ deductionTypes' = Append(deductionTypes, row)
            /\ LogActivity(dbOk, Activity("create", "deductionType", id,
                                          CreateDeductionTypeDetails(row)))
            /\ req' = [req EXCEPT ![r] = Finished(r, "createDeductionType", body, Json(201))]
          ELSE
            /\ req' = [req EXCEPT ![r] =
                         Finished(r, "createDeductionType", body,
                                  DbError("deduction_types_name_unique"))]
            /\ UNCHANGED <<deductionTypes, activities, consoleErrors>>

\* ------------------------------------------------------ POST /deductions
\* Bodies naming the first or the last row of either table, or a row that
\* does not exist; amount is required by insertDeductionSchema.
DeductionBodies ==
  [payrollItemId   : {1, Len(payrollItems) + 1},
   deductionTypeId : {Len(deductionTypes), Len(deductionTypes) + 1},
   amount          : {Some(2)}]
  \cup
  [payrollItemId : {1}, deductionTypeId : {1}, amount : {None}]

InsertDeductionValid(body) == IsSome(body.amount)

DeductionRow(body) ==
  [payrollItemId |-> body.payrollItemId, deductionTypeId |-> body.deductionTypeId,
   amount |-> Val(body.amount)]

\* references(() => payrollItems.id) and references(() => deductionTypes.id)
DeductionReferencesExist(row) ==
  /\ row.payrollItemId \in 1..Len(payrollItems)
  /\ row.deductionTypeId \in 1..Len(deductionTypes)

CreateDeductionDetails(row) ==
  <<"Created deduction for payroll item ID:", ToString(row.payrollItemId)>>

CreateDeduction(r, body, auth, dbOk) ==
  /\ CanStart(r)
  /\ UNCHANGED <<approvals, payrollItems, deductionTypes, settings, client, registers>>
  /\ IF ~auth THEN
       /\ req' = [req EXCEPT ![r] = Finished(r, "createDeduction", None, ApiError(401))]
       /\ UNCHANGED <<deductions, activities, consoleErrors>>
     ELSE IF ~InsertDeductionValid(body) THEN
       /\ req' = [req EXCEPT ![r] = Finished(r, "createDeduction", body, ApiError(400))]
       /\ UNCHANGED <<deductions, activities, consoleErrors>>
     ELSE
       LET row == DeductionRow(body)
           id  == Len(deductions) + 1
       IN IF DeductionReferencesExist(row) THEN
            /\ deductions' = Append(deductions, row)
            /\ LogActivity(dbOk, Activity("create", "deduction", id, CreateDeductionDetails(row)))
            /\ req' = [req EXCEPT ![r] = Finished(r, "createDeduction", body, Json(201))]
          ELSE
            /\ req' = [req EXCEPT ![r] =
                         Finished(r, "createDeduction", body, DbError("deductions_fkey"))]
            /\ UNCHANGED <<deductions, activities, consoleErrors>>

\* -------------------------------------------------------- POST /settings
SettingBodies ==
  { [key |-> Some("tax_rate"),            value |-> Some("0.20")],
    [key |-> Some("overtime_multiplier"), value |-> Some("2")],
    [key |-> Some("tax_rate"),            value |-> None] }

\* storage.getSetting(key): the id of the row with that key, or undefined.
GetSetting(key) ==
  LET ids == {i \in 1..Len(settings) : settings[i].key = key}
  IN IF ids = {} THEN None ELSE Some(CHOOSE i \in ids : TRUE)

\* key: text("key").notNull().unique()
SettingKeyUnique(table, key) == \A i \in 1..Len(table) : table[i].key # key

\* storage.updateSetting(id, {value, description})
UpdateSetting(table, id, value) == [table EXCEPT ![id].value = value]

\* The handler up to and including `await storage.getSetting(key)`.
SettingRead(r, body, auth) ==
  /\ CanStart(r)
  /\ UNCHANGED <<approvals, payrollItems, activities, consoleErrors>>
  /\ UNCHANGED <<catalog, client, registers>>
  /\ IF ~auth THEN
       req' = [req EXCEPT ![r] = Finished(r, "setting", None, ApiError(401))]
     ELSE IF ~Truthy(body.key) \/ ~Truthy(body.value) THEN
       req' = [req EXCEPT ![r] = Finished(r, "setting", body, ApiError(400))]
     ELSE
       req' = [req EXCEPT ![r] =
                 Started(r, "setting", body, GetSetting(Val(body.key)), "write")]

\* Mutant of SettingWrite: storing a setting recomputes the stored payroll
\* items with the new value.
SettingWriteRecompute(r, dbOk) ==
  /\ req[r].pc = "write"
  /\ req[r].op = "setting"
  /\ UNCHANGED <<approvals, deductionTypes, deductions, client, registers>>
  /\ LET body == req[r].arg
         existingSetting == req[r].local
         id == IF IsSome(existingSetting) THEN Val(existingSetting) ELSE Len(settings) + 1
     IN /\ settings' = IF IsSome(existingSetting)
                       THEN UpdateSetting(settings, id, Val(body.value))
                       ELSE Append(settings, [key |-> Val(body.key), value |-> Val(body.value)])
        /\ payrollItems' = [i \in 1..Len(payrollItems) |->
                              [payrollItems[i] EXCEPT !.taxAmount = 0,
                                                      !.netPay = payrollItems[i].grossPay]]
        /\ LogActivity(dbOk, Activity("update", "setting", id, <<"Updated setting:", Val(body.key)>>))
        /\ req' = [req EXCEPT ![r].pc = "done", ![r].res = Json(200)]

\* The rest of the handler: updateSetting of the row found, or
\* insertSettingSchema.parse and createSetting, which the unique key may
\* refuse; then logActivity and the response.
SettingWrite(r, dbOk) ==
  /\ req[r].pc = "write"
  /\ req[r].op = "setting"
  /\ UNCHANGED <<approvals, payrollItems, deductionTypes, deductions, client, registers>>
  /\ LET body == req[r].arg
         existingSetting == req[r].local
     IN IF IsSome(existingSetting) THEN
          /\ settings' = UpdateSetting(settings, Val(existingSetting), Val(body.value))
          /\ LogActivity(dbOk, Activity("update", "setting", Val(existingSetting),
                                        <<"Updated setting:", Val(body.key)>>))
          /\ req' = [req EXCEPT ![r].pc = "done", ![r].res = Json(200)]
        ELSE IF SettingKeyUnique(settings, Val(body.key)) THEN
          /\ settings' = Append(settings, [key |-> Val(body.key), value |-> Val(body.value)])
          /\ LogActivity(dbOk, Activity("create", "setting", Len(settings) + 1,
                                        <<"Created setting:", Val(body.key)>>))
          /\ req' = [req EXCEPT ![r].pc = "done", ![r].res = Json(201)]
        ELSE
          /\ req' = [req EXCEPT ![r].pc = "done", ![r].res = DbError("settings_key_unique")]
          /\ UNCHANGED <<settings, activities, consoleErrors>>

\* ------------------------------------------ PUT /payroll-items/:id (client)
\* updateItemMutation of the payroll form sends PUT /api/payroll-items/:id.
\* The router has no such route: no handler runs, the stores stay as they
\* are, and the router itself gives no response.
UpdatePayrollItemUnrouted(r, id) ==
  /\ CanStart(r)
  /\ req' = [req EXCEPT ![r] = Finished(r, "updatePayrollItem", Some(id), NoResponse)]
  /\ UNCHANGED <<approvals, payrollItems, activities, consoleErrors>>
  /\ UNCHANGED <<catalog, client, registers>>

\* ------------------------------------------- payroll form (client side)
\* JavaScript truthiness of an optional number: undefined, null and 0 are falsy.
NumTruthy(o) == IsSome(o) /\ Val(o) # 0

\* `value || 0`
OrZero(o) == IF NumTruthy(o) THEN Val(o) ELSE 0

\* The hours per month the form assumes for a salaried employee.
StandardHours == 160

\* employee.hourlyRate ? Number(employee.hourlyRate) : (basicSalary / 160)
HourlyRateOf(employee) ==
  IF NumTruthy(employee.hourlyRate) THEN Val(employee.hourlyRate)
  ELSE employee.basicSalary \div StandardHours

\* Mutant of OvertimeRate: overtime is paid at twice the hourly rate.
OvertimeRateDouble(hourlyRate) == hourlyRate * 2

\* hourlyRate * 1.5
OvertimeRate(hourlyRate) == (hourlyRate * 15) \div 10

\* grossPay * taxRate, with taxRate = 0.15
TaxOf(grossPay) == (grossPay * 15) \div 100

\* Mutant of calculatePayrollValues: the tax is taken on the gross pay the
\* form held before the call.
calculatePayrollValuesStale(form, employeeId) ==
  IF employeeId \notin DOMAIN employees THEN form
  ELSE
    LET employee       == employees[employeeId]
        basicSalary    == employee.basicSalary
        hoursWorked    == OrZero(form.hoursWorked)
        overtimeHours  == form.overtimeHours
        hourlyRate     == HourlyRateOf(employee)
        overtimeAmount == overtimeHours * OvertimeRate(hourlyRate)
        grossPay       == IF NumTruthy(employee.hourlyRate)
                          THEN (hoursWorked * hourlyRate) + overtimeAmount
                          ELSE basicSalary + overtimeAmount
        taxAmount      == TaxOf(form.grossPay)
        netPay         == grossPay - taxAmount - form.otherDeductions
    IN [form EXCEPT !.basicSalary = basicSalary, !.overtimeAmount = overtimeAmount,
                    !.grossPay = grossPay, !.taxAmount = taxAmount, !.netPay = netPay]

\* calculatePayrollValues(employeeId) on the form values `form`: the values
\* the form holds afterwards.  Nothing changes when the employee is not in
\* the employees list.
calculatePayrollValues(form, employeeId) ==
  IF employeeId \notin DOMAIN employees THEN form
  ELSE
    LET employee       == employees[employeeId]
        basicSalary    == employee.basicSalary
        hoursWorked    == OrZero(form.hoursWorked)
        overtimeHours  == form.overtimeHours
        hourlyRate     == HourlyRateOf(employee)
        overtimeAmount == overtimeHours * OvertimeRate(hourlyRate)
        grossPay       == IF NumTruthy(employee.hourlyRate)
                          THEN (hoursWorked * hourlyRate) + overtimeAmount
                          ELSE basicSalary + overtimeAmount
        taxAmount      == TaxOf(grossPay)
        netPay         == grossPay - taxAmount - form.otherDeductions
    IN [form EXCEPT !.basicSalary = basicSalary, !.overtimeAmount = overtimeAmount,
                    !.grossPay = grossPay, !.taxAmount = taxAmount, !.netPay = netPay]

\* The tables and requests of the server, which the form handlers leave alone.
server == <<approvals, payrollItems, activities, consoleErrors, req>>

\* handleEmployeeChange: an employee of the select list is chosen.
HandleEmployeeChange(e) ==
  /\ itemForm' = calculatePayrollValues([itemForm EXCEPT !.employeeId = e], e)
  /\ UNCHANGED <<server, catalog, employees, earlier, registers>>

\* Values typed into the inputs of the form.
BasicSalaryInputs == {Money(1000)}
HoursWorkedInputs == {None, Some(160)}
OvertimeHoursInputs == {10, -1}
OtherDeductionsInputs == {Money(100)}

\* onChange of the basicSalary input.
ChangeBasicSalary(v) ==
  /\ itemForm' = calculatePayrollValues([itemForm EXCEPT !.basicSalary = v],
                                        itemForm.employeeId)
  /\ UNCHANGED <<server, catalog, employees, earlier, registers>>

\* onChange of the hoursWorked input: a number, or undefined when emptied.
ChangeHoursWorked(v) ==
  /\ itemForm' = calculatePayrollValues([itemForm EXCEPT !.hoursWorked = v],
                                        itemForm.employeeId)
  /\ UNCHANGED <<server, catalog, employees, earlier, registers>>

\* onChange of the overtimeHours input.
ChangeOvertimeHours(v) ==
  /\ itemForm' = calculatePayrollValues([itemForm EXCEPT !.overtimeHours = v],
                                        itemForm.employeeId)
  /\ UNCHANGED <<server, catalog, employees, earlier, registers>>

\* onChange of the otherDeductions input.
ChangeOtherDeductions(v) ==
  /\ itemForm' = calculatePayrollValues([itemForm EXCEPT !.otherDeductions = v],
                                        itemForm.employeeId)
  /\ UNCHANGED <<server, catalog, employees, earlier, registers>>

\* What a calculation of the form started from and what it gave: the
\* employee record, the hours field and the hours it stands for, the overtime
\* hours and other deductions, the catalog and the settings, and the four
\* results.
Calculation(form) ==
  [employee        |-> employees[form.employeeId],
   hoursField      |-> form.hoursWorked,
   hoursWorked     |-> OrZero(form.hoursWorked),
   overtimeHours   |-> form.overtimeHours,
   otherDeductions |-> form.otherDeductions,
   deductionTypes  |-> deductionTypes,
   settings        |-> settings,
   overtimeAmount  |-> form.overtimeAmount,
   grossPay        |-> form.grossPay,
   taxAmount       |-> form.taxAmount,
   netPay          |-> form.netPay]

\* The calculation the form holds is kept for a later comparison.
KeepCalculation ==
  /\ itemForm.employeeId \in DOMAIN employees
  /\ earlier' = Some(Calculation(itemForm))
  /\ UNCHANGED <<server, catalog, employees, itemForm, registers>>

\* payrollItemFormSchema, the resolver of the form.
PayrollItemFormValid(form) ==
  /\ form.payrollPeriodId >= 1
  /\ form.employeeId >= 1
  /\ form.basicSalary >= 0
  /\ IsSome(form.hoursWorked) => Val(form.hoursWorked) >= 0
  /\ form.overtimeHours >= 0
  /\ form.overtimeAmount >= 0
  /\ form.grossPay >= 0
  /\ form.taxAmount >= 0
  /\ form.otherDeductions >= 0
  /\ form.netPay >= 0

\* The body createItemMutation posts: the values of the form (those of the
\* columns the model of the payroll_items table carries).
FormBody(form) ==
  [payrollPeriodId |-> form.payrollPeriodId, employeeId |-> form.employeeId,
   basicSalary |-> form.basicSalary, overtimeHours |-> Some(form.overtimeHours),
   grossPay |-> Some(form.grossPay), taxAmount |-> form.taxAmount,
   otherDeductions |-> form.otherDeductions, netPay |-> form.netPay]

\* itemForm.handleSubmit(onSubmitItem): when the values pass the resolver,
\* createItemMutation posts them to /api/payroll-items from the logged-in
\* session; the body passes insertPayrollItemSchema, so the handler reaches
\* its insert.  Values that fail the resolver send nothing.
SubmitItem(r) ==
  /\ CanStart(r)
  /\ PayrollItemFormValid(itemForm)
  /\ req' = [req EXCEPT ![r] =
               Started(r, "createPayrollItem", FormBody(itemForm), Some("form"), "insert")]
  /\ UNCHANGED <<approvals, payrollItems, activities, consoleErrors>>
  /\ UNCHANGED <<catalog, client, registers>>

\* onSuccess of createItemMutation: itemForm.reset().
CreateItemSuccess(r) ==
  /\ req[r].op = "createPayrollItem"
  /\ req[r].pc = "done"
  /\ req[r].local = Some("form")
  /\ IsSuccess(req[r].res)
  /\ req' = [req EXCEPT ![r].local = None]
  /\ itemForm' = FormDefaultValues
  /\ UNCHANGED <<approvals, payrollItems, activities, consoleErrors>>
  /\ UNCHANGED <<catalog, employees, earlier, registers>>

\* The state in which the payroll form is opened: the database initialised
\* by POST /setup/init-db, with one of the employees tables.
InitForm ==
  /\ approvals = <<>>
  /\ payrollItems = <<>>
  /\ activities = <<>>
  /\ consoleErrors = 0
  /\ req = [r \in Requests |-> IdleRequest]
  /\ deductionTypes = SeededDeductionTypes
  /\ deductions = <<>>
  /\ settings = SeededSettings
  /\ employees \in EmployeeTables
  /\ itemForm = FormDefaultValues
  /\ earlier = None
  /\ attendance = <<>>
  /\ payrollPeriods = DefaultPayrollPeriods
  /\ allowanceTypes = SeededAllowanceTypes
  /\ allowances = <<>>
  /\ users = SeededUsers
  /\ session = None

\* ------------------------------------------------------ POST /attendance
\* Dates of attendance records, as day numbers.
MaxDates == 2

\* Request bodies of POST /attendance: the time_in column is notNull, so
\* insertAttendanceSchema.parse rejects a body without timeIn.
AttendanceBodies ==
  { [employeeId |-> e, date |-> d, timeIn |-> Some(8)] : e \in EmployeeIds, d \in 1..MaxDates }
    \cup { [employeeId |-> 1, date |-> 1, timeIn |-> Some(9)],
           [employeeId |-> 1, date |-> 1, timeIn |-> None] }

InsertAttendanceValid(body) == IsSome(body.timeIn)

\* status has the column default 'present'.
AttendanceRow(body) ==
  [employeeId |-> body.employeeId, date |-> body.date,
   timeIn |-> Val(body.timeIn), status |-> "present"]

\* Mutant of EmployeeIdDateUnique: the table has no unique constraint.
EmployeeIdDateUnconstrained(table, row) == TRUE

\* employeeIdDateUnique: unique("employee_id_date_unique").on(employeeId, date)
EmployeeIdDateUnique(table, row) ==
  \A i \in 1..Len(table) :
    ~(table[i].employeeId = row.employeeId /\ table[i].date = row.date)

CreateAttendance(r, body, auth, dbOk) ==
  /\ CanStart(r)
  /\ UNCHANGED <<approvals, payrollItems, catalog, client>>
  /\ UNCHANGED <<payrollPeriods, allowanceTypes, allowances, users, session>>
  /\ IF ~auth THEN
       /\ req' = [req EXCEPT ![r] = Finished(r, "createAttendance", None, ApiError(401))]
       /\ UNCHANGED <<attendance, activities, consoleErrors>>
     ELSE IF ~InsertAttendanceValid(body) THEN
       /\ req' = [req EXCEPT ![r] = Finished(r, "createAttendance", body, ApiError(400))]
       /\ UNCHANGED <<attendance, activities, consoleErrors>>
     ELSE
       LET row == AttendanceRow(body)
           id  == Len(attendance) + 1
       IN IF row.employeeId \notin DOMAIN employees THEN
            /\ req' = [req EXCEPT ![r] =
                         Finished(r, "createAttendance", body,
                                  DbError("attendance_employee_id_fkey"))]
            /\ UNCHANGED <<attendance, activities, consoleErrors>>
          ELSE IF EmployeeIdDateUnique(attendance, row) THEN
            /\ attendance' = Append(attendance, row)
            /\ LogActivity(dbOk, Activity("create", "attendance", id,
                                          <<"Created attendance record for employee ID:",
                                            ToString(row.employeeId)>>))
            /\ req' = [req EXCEPT ![r] = Finished(r, "createAttendance", body, Json(201))]
          ELSE
            /\ req' = [req EXCEPT ![r] =
                         Finished(r, "createAttendance", body,
                                  DbError("employee_id_date_unique"))]
            /\ UNCHANGED <<attendance, activities, consoleErrors>>

\* ------------------------------------------------- DELETE /employees/:id
\* The rows that refer to an employee through a foreign key on employees.id.
ReferencesEmployee(id) ==
  \/ \E i \in 1..Len(attendance) : attendance[i].employeeId = id
  \/ \E i \in 1..Len(payrollItems) : payrollItems[i].employeeId = id
  \/ \E i \in 1..Len(approvals) : approvals[i].employeeId = id

\* getDb().delete(employees).where(eq(employees.id, id)): the table without
\* the row.
DeleteEmployee(table, id) ==
  [e \in (DOMAIN table) \ {id} |-> table[e]]

\* The handler up to and including `await storage.getEmployee(id)`.
DeleteEmployeeRead(r, idParam, auth) ==
  /\ CanStart(r)
  /\ UNCHANGED <<approvals, payrollItems, activities, consoleErrors>>
  /\ UNCHANGED <<catalog, client, registers>>
  /\ IF ~auth THEN
       req' = [req EXCEPT ![r] = Finished(r, "deleteEmployee", None, ApiError(401))]
     ELSE IF ~IsSome(idParam) THEN
       req' = [req EXCEPT ![r] = Finished(r, "deleteEmployee", idParam, ApiError(400))]
     ELSE IF Val(idParam) \notin DOMAIN employees THEN
       req' = [req EXCEPT ![r] = Finished(r, "deleteEmployee", idParam, ApiError(404))]
     ELSE
       req' = [req EXCEPT ![r] =
                 Started(r, "deleteEmployee", idParam, Some(employees[Val(idParam)]),
                         "delete")]

\* storage.deleteEmployee(id), logActivity when it reports success, and
\* res.json({ success }).  The delete statement fails on a foreign key when
\* a row still refers to the employee.
DeleteEmployeeDelete(r, dbOk) ==
  /\ req[r].pc = "delete"
  /\ req[r].op = "deleteEmployee"
  /\ UNCHANGED <<approvals, payrollItems, catalog, itemForm, earlier, registers>>
  /\ LET id      == Val(req[r].arg)
         \* result.length > 0: the statement has no returning clause, so
         \* the result holds no rows
         success == Len(<<>>) > 0
     IN IF ReferencesEmployee(id) THEN
          /\ req' = [req EXCEPT ![r].pc = "done", ![r].local = None,
                                ![r].res = DbError("employee_id_fkey")]
          /\ UNCHANGED <<employees, activities, consoleErrors>>
        ELSE
          /\ employees' = DeleteEmployee(employees, id)
          /\ IF success
             THEN LogActivity(dbOk, Activity("delete", "employee", id,
                                             <<"Terminated employee:", ToString(id)>>))
             ELSE UNCHANGED <<activities, consoleErrors>>
          /\ req' = [req EXCEPT ![r].pc = "done", ![r].local = Some(success),
                                ![r].res = Json(200)]

\* ------------------------------------------------- POST /payroll-periods
\* Request bodies of POST /payroll-periods: a date range that is new or the
\* one of period 1, with or without a status and a processedDate; one body
\* lacks the end date.
PayrollPeriodBodies ==
  { [startDate |-> Some(d), endDate |-> Some(d), status |-> st, processedDate |-> pd] :
      d \in {1, MaxPeriods + 1},
      st \in {None} \cup {Some(x) : x \in {"draft", "processing", "processed"}},
      pd \in {None, Some(1)} }
    \cup { [startDate |-> Some(1), endDate |-> None, status |-> None,
            processedDate |-> None] }

\* insertPayrollPeriodSchema.parse: start_date and end_date are notNull.
InsertPayrollPeriodValid(body) == IsSome(body.startDate) /\ IsSome(body.endDate)

\* The schema omits id and processedDate, so a processedDate of the body is
\* dropped by parse; status has the column default 'draft'.
PayrollPeriodRow(body) ==
  [startDate |-> Val(body.startDate), endDate |-> Val(body.endDate),
   status |-> IF IsSome(body.status) THEN Val(body.status) ELSE "draft",
   processedDate |-> None]

\* startEndDateUnique: unique("start_end_date_unique").on(startDate, endDate)
StartEndDateUnique(table, row) ==
  \A i \in 1..Len(table) :
    ~(table[i].startDate = row.startDate /\ table[i].endDate = row.endDate)

CreatePayrollPeriod(r, body, auth, dbOk) ==
  /\ CanStart(r)
  /\ UNCHANGED <<approvals, payrollItems, catalog, client>>
  /\ UNCHANGED <<attendance, allowanceTypes, allowances, users, session>>
  /\ IF ~auth THEN
       /\ req' = [req EXCEPT ![r] = Finished(r, "createPayrollPeriod", None, ApiError(401))]
       /\ UNCHANGED <<payrollPeriods, activities, consoleErrors>>
     ELSE IF ~InsertPayrollPeriodValid(body) THEN
       /\ req' = [req EXCEPT ![r] = Finished(r, "createPayrollPeriod", body, ApiError(400))]
       /\ UNCHANGED <<payrollPeriods, activities, consoleErrors>>
     ELSE
       LET row == PayrollPeriodRow(body)
           id  == Len(payrollPeriods) + 1
       IN IF StartEndDateUnique(payrollPeriods, row) THEN
            /\ payrollPeriods' = Append(payrollPeriods, row)
            /\ LogActivity(dbOk, Activity("create", "payrollPeriod", id,
                                          <<"Created payroll period:",
                                            ToString(row.startDate), "to",
                                            ToString(row.endDate)>>))
            /\ req' = [req EXCEPT ![r] = Finished(r, "createPayrollPeriod", body, Json(201))]
          ELSE
            /\ req' = [req EXCEPT ![r] =
                         Finished(r, "createPayrollPeriod", body,
                                  DbError("start_end_date_unique"))]
            /\ UNCHANGED <<payrollPeriods, activities, consoleErrors>>

\* --------------------------------------- PUT /payroll-periods/:id (client)
\* updatePeriodMutation of the payroll form sends PUT /api/payroll-periods/:id
\* with the status of the form.  The router has no such route: no handler
\* runs and the stores stay as they are.
UpdatePayrollPeriodUnrouted(r, id, status) ==
  /\ CanStart(r)
  /\ req' = [req EXCEPT ![r] =
               Finished(r, "updatePayrollPeriod", Some(<<id, status>>), NoResponse)]
  /\ UNCHANGED <<approvals, payrollItems, activities, consoleErrors>>
  /\ UNCHANGED <<catalog, client, registers>>

\* ------------------------------------------------------ POST /allowances
\* Bodies naming the first payroll item or one that does not exist, and the
\* first (non-taxable) or the last (taxable) of the seeded allowance types;
\* amount is required by insertAllowanceSchema.
AllowanceBodies ==
  [payrollItemId   : {1, Len(payrollItems) + 1},
   allowanceTypeId : {1, Len(allowanceTypes)},
   amount          : {Some(Money(100))}]
  \cup
  [payrollItemId : {1}, allowanceTypeId : {1}, amount : {None}]

InsertAllowanceValid(body) == IsSome(body.amount)

AllowanceRow(body) ==
  [payrollItemId |-> body.payrollItemId, allowanceTypeId |-> body.allowanceTypeId,
   amount |-> Val(body.amount)]

\* references(() => payrollItems.id) and references(() => allowanceTypes.id)
AllowanceReferencesExist(row) ==
  /\ row.payrollItemId \in 1..Len(payrollItems)
  /\ row.allowanceTypeId \in 1..Len(allowanceTypes)

\* storage.createAllowance inserts the line; the payroll item it names is
\* not read or written.
CreateAllowance(r, body, auth, dbOk) ==
  /\ CanStart(r)
  /\ UNCHANGED <<approvals, payrollItems, catalog, client>>
  /\ UNCHANGED <<attendance, payrollPeriods, allowanceTypes, users, session>>
  /\ IF ~auth THEN
       /\ req' = [req EXCEPT ![r] = Finished(r, "createAllowance", None, ApiError(401))]
       /\ UNCHANGED <<allowances, activities, consoleErrors>>
     ELSE IF ~InsertAllowanceValid(body) THEN
       /\ req' = [req EXCEPT ![r] = Finished(r, "createAllowance", body, ApiError(400))]
       /\ UNCHANGED <<allowances, activities, consoleErrors>>
     ELSE
       LET row == AllowanceRow(body)
           id  == Len(allowances) + 1
       IN IF AllowanceReferencesExist(row) THEN
            /\ allowances' = Append(allowances, row)
            /\ LogActivity(dbOk, Activity("create", "allowance", id,
                                          <<"Created allowance for payroll item ID:",
                                            ToString(row.payrollItemId)>>))
            /\ req' = [req EXCEPT ![r] = Finished(r, "createAllowance", body, Json(201))]
          ELSE
            /\ req' = [req EXCEPT ![r] =
                         Finished(r, "createAllowance", body, DbError("allowances_fkey"))]
            /\ UNCHANGED <<allowances, activities, consoleErrors>>

\* ------------------------------------------------ GET /approvals/pending
\* Mutant of GetPendingApprovals: the query excludes only approved rows.
GetNotApprovedApprovals(table) ==
  {i \in 1..Len(table) : table[i].status # "approved"}

\* select().from(approvals).where(eq(approvals.status, 'pending')): the
\* rows of the result, by id.
GetPendingApprovals(table) ==
  {i \in 1..Len(table) : table[i].status = "pending"}

\* res.json(approvals): the request keeps the list it answered with.
GetPending(r, auth) ==
  /\ CanStart(r)
  /\ UNCHANGED <<approvals, payrollItems, activities, consoleErrors>>
  /\ UNCHANGED <<catalog, client, registers>>
  /\ IF ~auth THEN
       req' = [req EXCEPT ![r] = Finished(r, "getPendingApprovals", None, ApiError(401))]
     ELSE
       req' = [req EXCEPT ![r] =
                 [Finished(r, "getPendingApprovals", None, Json(200))
                    EXCEPT !.local = Some(GetPendingApprovals(approvals))]]

\* ------------------------------------------------- /api/auth (auth.ts)
\* res.status(code).json({ message }) of the auth routes.
JsonMessage(code) == [kind |-> "error", status |-> code, name |-> "message"]

\* hashPassword: the scrypt hash of the password with a fresh salt.
HashPassword(password) == [hashed |-> TRUE, text |-> password]

\* comparePasswords: a stored value without '.' is compared as plain text,
\* a hashed one by hashing the supplied password with the stored salt.
ComparePasswords(supplied, stored) == supplied = stored.text

\* storage.getUserByUsername: the id of the user with the name, if any.
GetUserByUsername(table, username) ==
  LET ids == {i \in 1..Len(table) : table[i].username = username}
  IN IF ids = {} THEN None ELSE Some(CHOOSE i \in ids : TRUE)

\* The activity entries the auth routes write.
AuthActivity(userId, action, details) ==
  [userId |-> userId, action |-> action, entityType |-> "user",
   entityId |-> userId, details |-> details]

\* Request bodies of POST /api/auth/register and POST /api/auth/login.
RegisterBodies ==
  { [username |-> "admin", password |-> "secret"],
    [username |-> "bob",   password |-> "secret"] }

LoginBodies ==
  { [username |-> "admin", password |-> "admin123"],
    [username |-> "admin", password |-> "wrong"],
    [username |-> "bob",   password |-> "secret"],
    [username |-> "carol", password |-> "secret"] }

\* role: req.body.role || "user"
UserRow(body) ==
  [username |-> body.username, password |-> HashPassword(body.password), role |-> "user"]

\* POST /api/auth/register up to and including
\* `await storage.getUserByUsername(req.body.username)`.
RegisterRead(r, body) ==
  /\ CanStart(r)
  /\ UNCHANGED <<approvals, payrollItems, activities, consoleErrors>>
  /\ UNCHANGED <<catalog, client, registers>>
  /\ IF IsSome(GetUserByUsername(users, body.username)) THEN
       req' = [req EXCEPT ![r] = Finished(r, "register", body, JsonMessage(400))]
     ELSE
       req' = [req EXCEPT ![r] = Started(r, "register", body, None, "create")]

\* storage.createUser, then `await storage.createActivity` with no handler
\* of its own, then req.login and the 201 response.  When the activity
\* insert throws (dbOk false) the catch of the route passes the error on:
\* the user row stays, no session is set, the response is the error.
RegisterCreate(r, dbOk) ==
  /\ req[r].pc = "create"
  /\ req[r].op = "register"
  /\ UNCHANGED <<approvals, payrollItems, consoleErrors, catalog, client>>
  /\ UNCHANGED <<attendance, payrollPeriods, allowanceTypes, allowances>>
  /\ LET row == UserRow(req[r].arg)
         id  == Len(users) + 1
     IN IF IsSome(GetUserByUsername(users, row.username)) THEN
          /\ req' = [req EXCEPT ![r].pc = "done",
                                ![r].res = DbError("users_username_unique")]
          /\ UNCHANGED <<users, activities, session>>
        ELSE
          /\ users' = Append(users, row)
          /\ IF dbOk THEN
               /\ activities' = Append(activities,
                                       AuthActivity(id, "register",
                                                    <<"User", row.username, "registered">>))
               /\ session' = Some(id)
               /\ req' = [req EXCEPT ![r].pc = "done", ![r].res = Json(201)]
             ELSE
               /\ req' = [req EXCEPT ![r].pc = "done",
                                     ![r].res = DbError("activities_insert")]
               /\ UNCHANGED <<activities, session>>

\* storage.createActivity inside try/catch (login) or with .catch (logout):
\* a failed insert goes to console.error.
CreateActivityCaught(dbOk, entry) ==
  /\ activities' = IF dbOk THEN Append(activities, entry) ELSE activities
  /\ consoleErrors' = IF dbOk THEN consoleErrors ELSE consoleErrors + 1

\* POST /api/auth/login: the local strategy, req.login, the activity entry
\* and the response.
Login(r, body, dbOk) ==
  /\ CanStart(r)
  /\ UNCHANGED <<approvals, payrollItems, catalog, client>>
  /\ UNCHANGED <<attendance, payrollPeriods, allowanceTypes, allowances, users>>
  /\ LET user == GetUserByUsername(users, body.username)
     IN IF ~IsSome(user) \/ ~ComparePasswords(body.password, users[Val(user)].password) THEN
          /\ req' = [req EXCEPT ![r] = Finished(r, "login", body, JsonMessage(401))]
          /\ UNCHANGED <<activities, consoleErrors, session>>
        ELSE
          /\ session' = user
          /\ CreateActivityCaught(dbOk, AuthActivity(Val(user), "login",
                                                     <<"User", body.username, "logged in">>))
          /\ req' = [req EXCEPT ![r] = Finished(r, "login", body, Json(200))]

\* POST /api/auth/logout: req.logout, the activity entry when a user was
\* logged in, and res.sendStatus(200).
Logout(r, dbOk) ==
  /\ CanStart(r)
  /\ UNCHANGED <<approvals, payrollItems, catalog, client>>
  /\ UNCHANGED <<attendance, payrollPeriods, allowanceTypes, allowances, users>>
  /\ session' = None
  /\ IF IsSome(session)
     THEN CreateActivityCaught(dbOk, AuthActivity(Val(session), "logout",
                                                 <<"User", users[Val(session)].username,
                                                   "logged out">>))
     ELSE UNCHANGED <<activities, consoleErrors>>
  /\ req' = [req EXCEPT ![r] = Finished(r, "logout", session, Json(200))]

\* ------------------------------------------- GET /activities/recent/:limit
\* Number(req.params.limit) || 10
DefaultLimit == 10

\* storage.getRecentActivities(limit) gives the newest entries, at most limit.
GetRecent(r, limit, auth) ==
  /\ CanStart(r)
  /\ UNCHANGED <<approvals, payrollItems, activities, consoleErrors>>
  /\ UNCHANGED <<catalog, client, registers>>
  /\ IF ~auth THEN
       req' = [req EXCEPT ![r] = Finished(r, "getRecentActivities", None, ApiError(401))]
     ELSE
       req' = [req EXCEPT ![r] =
                 LET n == IF limit = 0 THEN DefaultLimit ELSE limit
                 IN [Finished(r, "getRecentActivities", None, Json(200))
                       EXCEPT !.local =
                         Some({k \in 1..Len(activities) : k > Len(activities) - n})]]

\* ------------------------------------------------------------ authenticate
\* Mutant of IsAuthenticated: every request counts as logged in.
IsAuthenticatedAlways(s) == TRUE

\* req.isAuthenticated(): the session of the request carries a user.
IsAuthenticated(s) == IsSome(s)

\* -------------------------------------------------- POST /setup/init-db
\* The route has no `authenticate`; it writes no activity entry.  Each
\* action below is the handler up to its next await.
InitDbFrame ==
  /\ UNCHANGED <<approvals, payrollItems, activities, consoleErrors, deductions, client>>
  /\ UNCHANGED <<attendance, payrollPeriods, allowances, session>>

\* Mutant of AdminMissing: the admin user is created without looking.
AdminMissingAlways(table) == TRUE

\* const adminUser = await storage.getUserByUsername('admin'); !adminUser
AdminMissing(table) == ~IsSome(GetUserByUsername(table, "admin"))

\* username: text("username").notNull().unique()
UsernameUnique(table, username) == \A i \in 1..Len(table) : table[i].username # username

\* name: text("name").notNull().unique() of allowance_types
AllowanceTypeNameUnique(table, row) == \A i \in 1..Len(table) : table[i].name # row.name

InitDbGetUser(r) ==
  /\ CanStart(r)
  /\ InitDbFrame
  /\ UNCHANGED <<users, settings, deductionTypes, allowanceTypes>>
  /\ req' = [req EXCEPT ![r] =
               Started(r, "initDb", None, None,
                       IF AdminMissing(users) THEN "createUser" ELSE "getSetting")]

InitDbCreateUser(r) ==
  /\ req[r].op = "initDb" /\ req[r].pc = "createUser"
  /\ InitDbFrame
  /\ UNCHANGED <<settings, deductionTypes, allowanceTypes>>
  /\ IF UsernameUnique(users, "admin")
     THEN /\ users' = Append(users, SeededUsers[1])
          /\ req' = [req EXCEPT ![r].pc = "getSetting", ![r].local = None]
     ELSE /\ UNCHANGED users
          /\ req' = [req EXCEPT ![r].pc = "done",
                                ![r].res = DbError("users_username_unique")]

InitDbGetSetting(r) ==
  /\ req[r].op = "initDb" /\ req[r].pc = "getSetting"
  /\ InitDbFrame
  /\ UNCHANGED <<users, settings, deductionTypes, allowanceTypes>>
  /\ req' = [req EXCEPT ![r].pc = IF IsSome(GetSetting("tax_rate"))
                                  THEN "getDeductionTypes" ELSE "createSetting"]

InitDbCreateSetting(r) ==
  /\ req[r].op = "initDb" /\ req[r].pc = "createSetting"
  /\ InitDbFrame
  /\ UNCHANGED <<users, deductionTypes, allowanceTypes>>
  /\ IF SettingKeyUnique(settings, "tax_rate")
     THEN /\ settings' = Append(settings, SeededSettings[1])
          /\ req' = [req EXCEPT ![r].pc = "getDeductionTypes", ![r].local = None]
     ELSE /\ UNCHANGED settings
          /\ req' = [req EXCEPT ![r].pc = "done",
                                ![r].res = DbError("settings_key_unique")]

\* deductionTypes.length === 0: the three default types are created one
\* after the other; local holds the number of the next one.
InitDbGetDeductionTypes(r) ==
  /\ req[r].op = "initDb" /\ req[r].pc = "getDeductionTypes"
  /\ InitDbFrame
  /\ UNCHANGED <<users, settings, deductionTypes, allowanceTypes>>
  /\ IF Len(deductionTypes) = 0
     THEN req' = [req EXCEPT ![r].pc = "createDeductionType", ![r].local = Some(1)]
     ELSE req' = [req EXCEPT ![r].pc = "getAllowanceTypes", ![r].local = None]

InitDbCreateDeductionType(r) ==
  /\ req[r].op = "initDb" /\ req[r].pc = "createDeductionType"
  /\ InitDbFrame
  /\ UNCHANGED <<users, settings, allowanceTypes>>
  /\ LET k   == Val(req[r].local)
         row == SeededDeductionTypes[k]
     IN IF DeductionTypeNameUnique(deductionTypes, row) THEN
          /\ deductionTypes' = Append(deductionTypes, row)
          /\ IF k < Len(SeededDeductionTypes)
             THEN req' = [req EXCEPT ![r].local = Some(k + 1)]
             ELSE req' = [req EXCEPT ![r].pc = "getAllowanceTypes", ![r].local = None]
        ELSE /\ UNCHANGED deductionTypes
             /\ req' = [req EXCEPT ![r].pc = "done",
                                   ![r].res = DbError("deduction_types_name_unique")]

\* allowanceTypes.length === 0, and the response when nothing is to create.
InitDbGetAllowanceTypes(r) ==
  /\ req[r].op = "initDb" /\ req[r].pc = "getAllowanceTypes"
  /\ InitDbFrame
  /\ UNCHANGED <<users, settings, deductionTypes, allowanceTypes>>
  /\ IF Len(allowanceTypes) = 0
     THEN req' = [req EXCEPT ![r].pc = "createAllowanceType", ![r].local = Some(1)]
     ELSE req' = [req EXCEPT ![r].pc = "done", ![r].local = None, ![r].res = Json(200)]

InitDbCreateAllowanceType(r) ==
  /\ req[r].op = "initDb" /\ req[r].pc = "createAllowanceType"
  /\ InitDbFrame
  /\ UNCHANGED <<users, settings, deductionTypes>>
  /\ LET k   == Val(req[r].local)
         row == SeededAllowanceTypes[k]
     IN IF AllowanceTypeNameUnique(allowanceTypes, row) THEN
          /\ allowanceTypes' = Append(allowanceTypes, row)
          /\ IF k < Len(SeededAllowanceTypes)
             THEN req' = [req EXCEPT ![r].local = Some(k + 1)]
             ELSE req' = [req EXCEPT ![r].pc = "done", ![r].local = None,
                                     ![r].res = Json(200)]
        ELSE /\ UNCHANGED allowanceTypes
             /\ req' = [req EXCEPT ![r].pc = "done",
                                   ![r].res = DbError("allowance_types_name_unique")]

\* ------------------------------------------------------- specifications
\* The outcomes of the activity insert of a route whose insert is taken to
\* succeed.
ActivityStoreUp == {TRUE}

\* The approval routes.  The activity insert of approve and reject may fail;
\* the one of POST /approvals succeeds.
NextApproval ==
  \/ \E r \in Requests, body \in SubmitBodies, auth \in BOOLEAN, dbOk \in ActivityStoreUp :
       SubmitApproval(r, body, auth, dbOk)
  \/ \E r \in Requests, idParam \in IdParams, auth \in BOOLEAN :
       ApproveRead(r, idParam, auth)
  \/ \E r \in Requests, dbOk \in BOOLEAN : ApproveUpdate(r, dbOk)
  \/ \E r \in Requests, idParam \in IdParams, reason \in Reasons, auth \in BOOLEAN :
       RejectRead(r, idParam, reason, auth)
  \/ \E r \in Requests, dbOk \in BOOLEAN : RejectUpdate(r, dbOk)

SpecApproval == Init /\ [][NextApproval]_vars

\* The payroll-item route, with the submission of the approvals whose hours
\* a payroll item may carry.  The activities table accepts every insert here;
\* SpecApproval and SpecAudit cover the inserts that fail.

NextPayroll ==
  \/ \E r \in PayrollRequests, body \in SubmitBodies, auth \in BOOLEAN, dbOk \in ActivityStoreUp :
       SubmitApproval(r, body, auth, dbOk)
  \/ \E r \in PayrollRequests, body \in PayrollItemBodies, auth \in BOOLEAN :
       CreatePayrollItemParse(r, body, auth)
  \/ \E r \in PayrollRequests, dbOk \in ActivityStoreUp : CreatePayrollItemInsert(r, dbOk)

SpecPayroll == Init /\ [][NextPayroll]_vars

\* The catalog, line and settings routes with the payroll-item route, in a
\* database initialised by POST /setup/init-db.
CatalogItemBodies ==
  {body \in PayrollItemBodies : body.employeeId = 1 /\ body.overtimeHours = None}

ValidSettingBodies == {body \in SettingBodies : Truthy(body.key) /\ Truthy(body.value)}

NextCatalog ==
  \/ \E r \in Requests, body \in CatalogItemBodies : CreatePayrollItemParse(r, body, TRUE)
  \/ \E r \in Requests, dbOk \in ActivityStoreUp : CreatePayrollItemInsert(r, dbOk)
  \/ \E r \in Requests, body \in DeductionTypeBodies, dbOk \in ActivityStoreUp :
       CreateDeductionType(r, body, TRUE, dbOk)
  \/ \E r \in Requests, body \in DeductionBodies, auth \in BOOLEAN, dbOk \in ActivityStoreUp :
       CreateDeduction(r, body, auth, dbOk)
  \/ \E r \in Requests, body \in ValidSettingBodies : SettingRead(r, body, TRUE)
  \/ \E r \in Requests, dbOk \in ActivityStoreUp : SettingWrite(r, dbOk)
  \/ \E r \in Requests, id \in 1..Len(payrollItems) : UpdatePayrollItemUnrouted(r, id)

SpecCatalog == InitSeeded /\ [][NextCatalog]_vars

\* The payroll form of one client with the route it posts to.
FormRequests == {r \in Requests : r <= 2}

NextForm ==
  \/ \E e \in DOMAIN employees : HandleEmployeeChange(e)
  \/ \E v \in BasicSalaryInputs : ChangeBasicSalary(v)
  \/ \E v \in HoursWorkedInputs : ChangeHoursWorked(v)
  \/ \E v \in OvertimeHoursInputs : ChangeOvertimeHours(v)
  \/ \E v \in OtherDeductionsInputs : ChangeOtherDeductions(v)
  \/ \E r \in FormRequests : SubmitItem(r)
  \/ \E r \in FormRequests, dbOk \in ActivityStoreUp : CreatePayrollItemInsert(r, dbOk)
  \/ \E r \in FormRequests : CreateItemSuccess(r)

SpecForm == InitForm /\ [][NextForm]_vars

\* POST /payroll-items called directly (not through the payroll form), with
\* bodies whose salary or overtime hours may be negative.
ItemInputBodies ==
  { [payrollPeriodId |-> 1, employeeId |-> e, basicSalary |-> b,
     overtimeHours |-> h, grossPay |-> Some(b), taxAmount |-> 0,
     otherDeductions |-> 0, netPay |-> b] :
      e \in EmployeeIds, b \in {BasicSalary, 0 - BasicSalary},
      h \in {None, Some(0 - OvertimeHours)} }

NextItemInput ==
  \/ \E r \in PayrollRequests, body \in ItemInputBodies, auth \in BOOLEAN :
       CreatePayrollItemParse(r, body, auth)
  \/ \E r \in PayrollRequests, dbOk \in ActivityStoreUp : CreatePayrollItemInsert(r, dbOk)

SpecItemInput == Init /\ [][NextItemInput]_vars

\* The calculations of the payroll form while a request changes the settings.
ComputeRequests == {r \in Requests : r <= 1}

NextCompute ==
  \/ \E e \in DOMAIN employees : HandleEmployeeChange(e)
  \/ \E v \in BasicSalaryInputs : ChangeBasicSalary(v)
  \/ \E v \in HoursWorkedInputs : ChangeHoursWorked(v)
  \/ \E v \in OvertimeHoursInputs : ChangeOvertimeHours(v)
  \/ \E v \in OtherDeductionsInputs : ChangeOtherDeductions(v)
  \/ KeepCalculation
  \/ \E r \in ComputeRequests, body \in SettingBodies : SettingRead(r, body, TRUE)
  \/ \E r \in ComputeRequests, dbOk \in ActivityStoreUp : SettingWrite(r, dbOk)

SpecCompute == InitForm /\ [][NextCompute]_vars

\* The routes that change an approval or store a payroll item, with an
\* activities table whose inserts may fail.
AuditSubmitBodies == {body \in SubmitBodies : body.employeeId = 1 /\ body.status = None}

NextAudit ==
  \/ \E r \in Requests, body \in AuditSubmitBodies, dbOk \in ActivityStoreUp :
       SubmitApproval(r, body, TRUE, dbOk)
  \/ \E r \in Requests, id \in 1..Len(approvals) : ApproveRead(r, Some(id), TRUE)
  \/ \E r \in Requests, dbOk \in BOOLEAN : ApproveUpdate(r, dbOk)
  \/ \E r \in Requests, id \in 1..Len(approvals) : RejectRead(r, Some(id), Some("late"), TRUE)
  \/ \E r \in Requests, dbOk \in BOOLEAN : RejectUpdate(r, dbOk)
  \/ \E r \in Requests, body \in CatalogItemBodies : CreatePayrollItemParse(r, body, TRUE)
  \/ \E r \in Requests, dbOk \in BOOLEAN : CreatePayrollItemInsert(r, dbOk)

SpecAudit == Init /\ [][NextAudit]_vars

\* The attendance route and the employee termination route.
\* The requests of one behaviour of the route groups below.
ClientRequests == {r \in Requests : r <= 3}

NextStaff ==
  \/ \E r \in ClientRequests, body \in AttendanceBodies, auth \in BOOLEAN :
       CreateAttendance(r, body, auth, TRUE)
  \/ \E r \in ClientRequests, idParam \in {None} \cup {Some(e) : e \in 1..(MaxEmployees + 1)}, auth \in BOOLEAN :
       DeleteEmployeeRead(r, idParam, auth)
  \/ \E r \in ClientRequests, dbOk \in BOOLEAN : DeleteEmployeeDelete(r, dbOk)

SpecStaff == Init /\ [][NextStaff]_vars

\* The payroll-period routes, with the update the client sends.
NextPeriod ==
  \/ \E r \in ClientRequests, body \in PayrollPeriodBodies, auth \in BOOLEAN :
       CreatePayrollPeriod(r, body, auth, TRUE)
  \/ \E r \in ClientRequests, id \in 1..Len(payrollPeriods),
          status \in {"processing", "processed"} :
       UpdatePayrollPeriodUnrouted(r, id, status)

SpecPeriod == Init /\ [][NextPeriod]_vars

\* The payroll form creating items, and the allowance lines added to them.
NextAllowance ==
  \/ \E e \in DOMAIN employees : HandleEmployeeChange(e)
  \/ \E v \in {10} : ChangeOvertimeHours(v)
  \/ \E r \in ClientRequests : SubmitItem(r)
  \/ \E r \in ClientRequests, dbOk \in ActivityStoreUp : CreatePayrollItemInsert(r, dbOk)
  \/ \E r \in ClientRequests : CreateItemSuccess(r)
  \/ \E r \in ClientRequests, body \in AllowanceBodies, auth \in BOOLEAN :
       CreateAllowance(r, body, auth, TRUE)

SpecAllowance == InitSeeded /\ [][NextAllowance]_vars

\* The approval workflow seen through the pending list, from the state in
\* which the valid bodies of POST /approvals have been submitted, by one
\* request each, and all requests have been answered.
SubmittedApprovals ==
  << ApprovalRow(CHOOSE b \in AuditSubmitBodies : b.type = Some("overtime")),
     ApprovalRow(CHOOSE b \in AuditSubmitBodies : b.type = Some("leave")),
     ApprovalRow(CHOOSE b \in AuditSubmitBodies : b.type = Some("overtime")) >>

InitPending ==
  /\ approvals = SubmittedApprovals
  /\ payrollItems = <<>>
  /\ activities = [i \in 1..Len(SubmittedApprovals) |->
                     Activity("create", "approval", i,
                              CreateApprovalDetails(SubmittedApprovals[i]))]
  /\ consoleErrors = 0
  /\ req = [r \in Requests |-> IdleRequest]
  /\ deductionTypes = <<>>
  /\ deductions = <<>>
  /\ settings = <<>>
  /\ employees = DefaultEmployees
  /\ itemForm = FormDefaultValues
  /\ earlier = None
  /\ attendance = <<>>
  /\ payrollPeriods = DefaultPayrollPeriods
  /\ allowanceTypes = <<>>
  /\ allowances = <<>>
  /\ users = <<>>
  /\ session = None

NextPending ==
  \/ \E r \in ClientRequests, body \in AuditSubmitBodies :
       SubmitApproval(r, body, TRUE, TRUE)
  \/ \E r \in ClientRequests, id \in 1..Len(approvals) : ApproveRead(r, Some(id), TRUE)
  \/ \E r \in ClientRequests, dbOk \in ActivityStoreUp : ApproveUpdate(r, dbOk)
  \/ \E r \in ClientRequests, id \in 1..Len(approvals) : RejectRead(r, Some(id), Some("late"), TRUE)
  \/ \E r \in ClientRequests, dbOk \in ActivityStoreUp : RejectUpdate(r, dbOk)
  \/ \E r \in ClientRequests, auth \in BOOLEAN : GetPending(r, auth)

SpecPending == InitPending /\ [][NextPending]_vars

\* The auth routes of one client, on the initialised database.
NextAuth ==
  \/ \E r \in ClientRequests, body \in RegisterBodies : RegisterRead(r, body)
  \/ \E r \in ClientRequests, dbOk \in BOOLEAN : RegisterCreate(r, dbOk)
  \/ \E r \in ClientRequests, body \in LoginBodies, dbOk \in BOOLEAN : Login(r, body, dbOk)
  \/ \E r \in ClientRequests, dbOk \in BOOLEAN : Logout(r, dbOk)

SpecAuth == InitSeeded /\ [][NextAuth]_vars

\* Every guarded route, reached by one client that logs in and out: each
\* request passes `authenticate` exactly when the client's session carries
\* a user at the time the request arrives.
\* The initialised database, with the client logged out or logged in as the
\* admin user by an earlier POST /api/auth/login.
InitGuard ==
  /\ approvals = <<>>
  /\ payrollItems = <<>>
  /\ session \in {None, Some(1)}
  /\ activities = IF session = None THEN <<>>
                  ELSE << AuthActivity(1, "login", <<"User", "admin", "logged in">>) >>
  /\ consoleErrors = 0
  /\ req = [r \in Requests |-> IdleRequest]
  /\ deductionTypes = SeededDeductionTypes
  /\ deductions = <<>>
  /\ settings = SeededSettings
  /\ employees = DefaultEmployees
  /\ itemForm = FormDefaultValues
  /\ earlier = None
  /\ attendance = <<>>
  /\ payrollPeriods = DefaultPayrollPeriods
  /\ allowanceTypes = SeededAllowanceTypes
  /\ allowances = <<>>
  /\ users = SeededUsers

NextGuard ==
  \/ \E r \in ClientRequests, body \in LoginBodies : Login(r, body, TRUE)
  \/ \E r \in ClientRequests : Logout(r, TRUE)
  \/ \E r \in ClientRequests : DeleteEmployeeRead(r, Some(MaxEmployees), IsAuthenticated(session))
  \/ \E r \in ClientRequests : DeleteEmployeeDelete(r, TRUE)
  \/ \E r \in ClientRequests, body \in {b \in AttendanceBodies : b.employeeId = 1 /\ b.date = 1} :
       CreateAttendance(r, body, IsAuthenticated(session), TRUE)
  \/ \E r \in ClientRequests, body \in {b \in PayrollPeriodBodies : b.status = None /\ b.processedDate = None} :
       CreatePayrollPeriod(r, body, IsAuthenticated(session), TRUE)
  \/ \E r \in ClientRequests, body \in CatalogItemBodies :
       CreatePayrollItemParse(r, body, IsAuthenticated(session))
  \/ \E r \in ClientRequests : CreatePayrollItemInsert(r, TRUE)
  \/ \E r \in ClientRequests, body \in DeductionTypeBodies :
       CreateDeductionType(r, body, IsAuthenticated(session), TRUE)
  \/ \E r \in ClientRequests, body \in DeductionBodies :
       CreateDeduction(r, body, IsAuthenticated(session), TRUE)
  \/ \E r \in ClientRequests, body \in AllowanceBodies :
       CreateAllowance(r, body, IsAuthenticated(session), TRUE)
  \/ \E r \in ClientRequests, body \in ValidSettingBodies :
       SettingRead(r, body, IsAuthenticated(session))
  \/ \E r \in ClientRequests : SettingWrite(r, TRUE)
  \/ \E r \in ClientRequests, body \in AuditSubmitBodies :
       SubmitApproval(r, body, IsAuthenticated(session), TRUE)
  \/ \E r \in ClientRequests, id \in 1..Len(approvals) :
       ApproveRead(r, Some(id), IsAuthenticated(session))
  \/ \E r \in ClientRequests : ApproveUpdate(r, TRUE)
  \/ \E r \in ClientRequests, id \in 1..Len(approvals) :
       RejectRead(r, Some(id), Some("late"), IsAuthenticated(session))
  \/ \E r \in ClientRequests : RejectUpdate(r, TRUE)
  \/ \E r \in ClientRequests : GetPending(r, IsAuthenticated(session))
  \/ \E r \in ClientRequests, limit \in {0, 1} : GetRecent(r, limit, IsAuthenticated(session))

SpecGuard == InitGuard /\ [][NextGuard]_vars

\* Database initialisation on an empty database, run any number of times,
\* one run after or during another, among requests that create deduction
\* types and set the tax rate.
NextInitDb ==
  \/ \E r \in ClientRequests : InitDbGetUser(r)
  \/ \E r \in ClientRequests : InitDbCreateUser(r)
  \/ \E r \in ClientRequests : InitDbGetSetting(r)
  \/ \E r \in ClientRequests : InitDbCreateSetting(r)
  \/ \E r \in ClientRequests : InitDbGetDeductionTypes(r)
  \/ \E r \in ClientRequests : InitDbCreateDeductionType(r)
  \/ \E r \in ClientRequests : InitDbGetAllowanceTypes(r)
  \/ \E r \in ClientRequests : InitDbCreateAllowanceType(r)
  \/ \E r \in ClientRequests, body \in DeductionTypeBodies :
       CreateDeductionType(r, body, TRUE, TRUE)
  \/ \E r \in ClientRequests, body \in ValidSettingBodies : SettingRead(r, body, TRUE)
  \/ \E r \in ClientRequests : SettingWrite(r, TRUE)

SpecInitDb == Init /\ [][NextInitDb]_vars

\* POST /approvals alone, over the bodies of every approval type.
NextSubmit ==
  \E r \in PayrollRequests, body \in PayloadBodies, auth \in BOOLEAN, dbOk \in ActivityStoreUp :
    SubmitApproval(r, body, auth, dbOk)

SpecSubmit == Init /\ [][NextSubmit]_vars

\* =================================================================== claims
\* Requests that ask for a transition of an approval, and the id they name.
IsTransition(r) == req[r].op \in {"approve", "reject"}

TransitionId(r) ==
  IF req[r].op = "approve" THEN Val(req[r].arg) ELSE Val(req[r].arg.id)

\* The request has run its updateApproval call; it still holds the row it read.
Transitioned(r) ==
  /\ IsTransition(r)
  /\ req[r].pc = "done"
  /\ IsSome(req[r].local)

\* The step in which request r runs its updateApproval call.
TransitionStep(r) ==
  /\ IsTransition(r)
  /\ req[r].pc = "update"
  /\ req'[r].pc = "done"

Terminal == {"approved", "rejected"}

\* C1: once an approval's status is approved or rejected, no step changes it.
ApprovalMonotonicity ==
  [][\A i \in 1..Len(approvals) :
       approvals[i].status \in Terminal => approvals'[i].status = approvals[i].status]_vars

\* C2: two approve/reject requests that both read the same approval as
\* pending never both answer with success.
ConcurrentTransitionsExclusive ==
  \A r1, r2 \in Requests :
    ( /\ r1 # r2
      /\ Transitioned(r1) /\ Transitioned(r2)
      /\ TransitionId(r1) = TransitionId(r2)
      /\ Val(req[r1].local).status = "pending"
      /\ Val(req[r2].local).status = "pending" )
    => ~(IsSuccess(req[r1].res) /\ IsSuccess(req[r2].res))

\* C3: an approve or reject request that finds the approval not pending is
\* answered with an error and appends nothing to the activities.
NonPendingTransitionRejected ==
  [][\A r \in Requests :
       (TransitionStep(r) /\ Val(req[r].local).status # "pending")
       => (IsError(req'[r].res) /\ activities' = activities)]_vars

\* C8: the step in which a reject succeeds stores the request's reason in the
\* approval's rejectedReason, and the activity entry it appends carries the
\* reason.
RejectStoresReason ==
  [][\A r \in Requests :
       (TransitionStep(r) /\ req[r].op = "reject" /\ IsSuccess(req'[r].res))
       => /\ approvals'[TransitionId(r)].rejectedReason = req[r].arg.reason
          /\ \A k \in 1..Len(activities') :
               k > Len(activities) =>
                 \E j \in 1..Len(activities'[k].details) :
                   activities'[k].details[j] = Val(req[r].arg.reason)]_vars

\* C9: a reject request whose reason is absent or empty is answered with the
\* error 400 in the step that starts it, and that step leaves the approvals
\* and the activities as they are.
AbsentOrEmpty(reason) == reason = None \/ reason = Some("")

RejectWithoutReasonFails ==
  [][\A r \in Requests :
       ( /\ req[r].pc = "idle"
         /\ req'[r].op = "reject"
         /\ IsSome(req'[r].arg)
         /\ AbsentOrEmpty(req'[r].arg.reason) )
       => /\ req'[r].pc = "done"
          /\ req'[r].res = ApiError(400)
          /\ approvals' = approvals
          /\ activities' = activities]_vars

\* C9 witness: a reject with an empty reason, naming an existing pending
\* approval, was answered 400 and the approval is still pending.
RejectWithoutReasonWitness ==
  \E r \in Requests :
    /\ req[r].op = "reject"
    /\ req[r].pc = "done"
    /\ IsSome(req[r].arg)
    /\ req[r].arg.reason = Some("")
    /\ IsSome(req[r].arg.id)
    /\ ApprovalExists(Val(req[r].arg.id))
    /\ approvals[Val(req[r].arg.id)].status = "pending"
    /\ req[r].res = ApiError(400)

\* C10: every row added to the approvals has status pending, and a status
\* changes only in the updateApproval step of an approve or reject request.
SubmitStartsPending ==
  [][/\ \A i \in 1..Len(approvals') :
          i > Len(approvals) => approvals'[i].status = "pending"
     /\ \A i \in 1..Len(approvals) :
          approvals'[i].status # approvals[i].status
          => \E r \in Requests : TransitionStep(r) /\ TransitionId(r) = i]_vars

\* The fields the type of a submitted body is about are all present.
PayloadComplete(body) ==
  /\ body.type = Some("overtime") => IsSome(body.hours) /\ IsSome(body.startDate)
  /\ body.type = Some("leave") => IsSome(body.startDate) /\ IsSome(body.endDate)
  /\ body.type = Some("reimbursement") => IsSome(body.amount) /\ IsSome(body.notes)

\* C11: a submit whose body lacks a field its type is about (hours or
\* startDate of an overtime request, startDate or endDate of a leave request,
\* amount or notes of a reimbursement request) is answered with an error and
\* leaves the approvals as they are.
SubmitValidatesPayload ==
  [][\A r \in Requests :
       ( /\ req[r].pc = "idle"
         /\ req'[r].op = "submit"
         /\ IsSome(req'[r].arg)
         /\ ~PayloadComplete(req'[r].arg) )
       => /\ IsError(req'[r].res)
          /\ approvals' = approvals]_vars

\* ------------------------------------------------------ payroll items
IsCreate(r) == req[r].op = "createPayrollItem"

\* The request has run its INSERT.
Inserted(r) ==
  /\ IsCreate(r)
  /\ req[r].pc = "done"
  /\ IsSome(req[r].arg)
  /\ req[r].res \in {Json(201), DbError("period_employee_unique")}

SamePair(a, b) ==
  a.payrollPeriodId = b.payrollPeriodId /\ a.employeeId = b.employeeId

RowsOfPair(table, a) == {i \in 1..Len(table) : SamePair(table[i], a)}

\* The hours of the approved overtime approvals of employee e among the
\* first n rows of the approvals.
RECURSIVE ApprovedOvertimeHours(_, _)
ApprovedOvertimeHours(e, n) ==
  IF n = 0 THEN 0
  ELSE ApprovedOvertimeHours(e, n - 1) +
       ( IF /\ approvals[n].employeeId = e
            /\ approvals[n].type = "overtime"
            /\ approvals[n].status = "approved"
            /\ IsSome(approvals[n].hours)
         THEN Val(approvals[n].hours) ELSE 0 )

\* C4: when a payroll item is stored for an employee who has a pending or
\* rejected overtime approval, the item's overtime hours are covered by the
\* hours of that employee's approved overtime approvals.
OvertimeGating ==
  [][\A i \in 1..Len(payrollItems') :
       ( /\ i > Len(payrollItems)
         /\ \E a \in 1..Len(approvals) :
              /\ approvals[a].employeeId = payrollItems'[i].employeeId
              /\ approvals[a].type = "overtime"
              /\ approvals[a].status \in {"pending", "rejected"} )
       => payrollItems'[i].overtimeHours
            <= ApprovedOvertimeHours(payrollItems'[i].employeeId, Len(approvals))]_vars

\* No two payroll items share a (period, employee) pair.
AtMostOneItemPerPair ==
  \A i, j \in 1..Len(payrollItems) :
    SamePair(payrollItems[i], payrollItems[j]) => i = j

\* The step of an insert for a pair that already has an item gives the
\* unique-constraint error and leaves the table as it is.
DuplicateCreateFails ==
  \A r \in Requests :
    ( /\ IsCreate(r)
      /\ req[r].pc = "insert"
      /\ req'[r].pc = "done"
      /\ RowsOfPair(payrollItems, req[r].arg) # {} )
    => /\ req'[r].res = DbError("period_employee_unique")
       /\ payrollItems' = payrollItems

\* C5: in every reachable state there is at most one payroll item per
\* (period, employee) pair, and a create for a pair that already has an item
\* fails with the unique-constraint error and leaves the existing item as it is.
PayrollItemUniqueness ==
  [](AtMostOneItemPerPair) /\ [][DuplicateCreateFails]_vars

\* C5 witness: a create for a pair that already had an item, carrying other
\* values than the stored item, was answered with the unique-constraint error.
DuplicateCreateWitness ==
  \E r \in Requests :
    /\ Inserted(r)
    /\ req[r].res = DbError("period_employee_unique")
    /\ \E i \in RowsOfPair(payrollItems, req[r].arg) :
         payrollItems[i] # PayrollItemRow(req[r].arg)

\* C6: of two create requests for the same pair that were in flight together,
\* at least one is answered with the unique-constraint error, the pair has no
\* more than one row, and that row is the one of the request that succeeded.
Concurrent(r1, r2) == r1 \in req[r2].overlap \/ r2 \in req[r1].overlap

ConcurrentCreatesExclusive ==
  \A r1, r2 \in Requests :
    ( /\ r1 # r2
      /\ Inserted(r1) /\ Inserted(r2)
      /\ SamePair(req[r1].arg, req[r2].arg)
      /\ Concurrent(r1, r2) )
    => /\ DbError("period_employee_unique") \in {req[r1].res, req[r2].res}
       /\ Cardinality(RowsOfPair(payrollItems, req[r1].arg)) = 1
       /\ \A r \in {r1, r2} :
            IsSuccess(req[r].res) =>
              \A i \in RowsOfPair(payrollItems, req[r].arg) :
                payrollItems[i] = PayrollItemRow(req[r].arg)

\* C6 witness: two creates for the same pair with different values were in
\* flight together; the one started later inserted first and succeeded, the
\* other got the unique-constraint error.
ConcurrentCreatesWitness ==
  \E r1, r2 \in Requests :
    /\ r1 < r2
    /\ Inserted(r1) /\ Inserted(r2)
    /\ SamePair(req[r1].arg, req[r2].arg)
    /\ req[r1].arg # req[r2].arg
    /\ r1 \in req[r2].overlap
    /\ req[r2].res = Json(201)
    /\ req[r1].res = DbError("period_employee_unique")

\* C7: every stored payroll item has a net pay of at least 0.
NetPayNonNegative ==
  \A i \in 1..Len(payrollItems) : payrollItems[i].netPay >= 0

\* ------------------------------------------------------ deduction lines
\* The rows of the deductions table that belong to payroll item i.
LinesOf(i) == {d \in 1..Len(deductions) : deductions[d].payrollItemId = i}

IsIncomeTaxLine(d) == deductionTypes[deductions[d].deductionTypeId].name = "Income Tax"

\* The sum of the amounts of the lines in the set ds.
RECURSIVE SumOfLines(_)
SumOfLines(ds) ==
  IF ds = {} THEN 0
  ELSE LET d == CHOOSE x \in ds : TRUE
       IN deductions[d].amount + SumOfLines(ds \ {d})

\* C12: the net pay of every stored payroll item is its gross pay minus its
\* tax amount (which stands for its income-tax line), minus the amounts of
\* its other deduction lines, minus its other deductions.
NetPayIdentity ==
  \A i \in 1..Len(payrollItems) :
    payrollItems[i].netPay =
      payrollItems[i].grossPay - payrollItems[i].taxAmount
        - SumOfLines({d \in LinesOf(i) : ~IsIncomeTaxLine(d)})
        - payrollItems[i].otherDeductions

RequiredTypes == {t \in 1..Len(deductionTypes) : deductionTypes[t].isRequired}

\* C15: the step that stores a payroll item leaves the item with exactly one
\* deduction line per required deduction type, of amount grossPay *
\* defaultValue / 100 for a percentage type and defaultValue for a flat type.
ItemCreationEmitsRequiredLines ==
  [][\A i \in 1..Len(payrollItems') :
       i > Len(payrollItems) =>
         LET lines == {d \in 1..Len(deductions') : deductions'[d].payrollItemId = i}
         IN /\ \A t \in RequiredTypes :
                 Cardinality({d \in lines : deductions'[d].deductionTypeId = t}) = 1
            /\ \A d \in lines :
                 LET t == deductions'[d].deductionTypeId
                 IN /\ t \in RequiredTypes
                    /\ IF deductionTypes[t].isPercentage
                       THEN deductions'[d].amount * 100
                              = payrollItems'[i].grossPay * deductionTypes[t].defaultValue
                       ELSE deductions'[d].amount = deductionTypes[t].defaultValue]_vars

EmployeeSelected == itemForm.employeeId \in DOMAIN employees

\* The employee has an hourly rate: one that is present and not 0.
HasHourlyRate(employee) ==
  employee.hourlyRate # None /\ employee.hourlyRate # Some(0)

\* C13: whenever an employee is selected, the form holds overtimeAmount =
\* overtimeHours * rate * 1.5 with rate the hourly rate or basicSalary / 160,
\* grossPay = basic component + overtimeAmount with the basic component
\* hoursWorked * hourlyRate or else basicSalary, taxAmount = 15% of grossPay,
\* and netPay = grossPay - taxAmount - otherDeductions; hourly rate 20 with
\* 160 hours and 10 overtime hours gives 300 / 3500 / 525 / 2975, and salary
\* 5000 without overtime gives 5000 / 750 / 4250.
ComputationMatchesFormula ==
  EmployeeSelected =>
    LET employee == employees[itemForm.employeeId]
        hours == IF itemForm.hoursWorked = None THEN 0 ELSE Val(itemForm.hoursWorked)
        basicComponent == IF HasHourlyRate(employee)
                          THEN hours * Val(employee.hourlyRate)
                          ELSE employee.basicSalary
    IN /\ itemForm.overtimeAmount * 320 =
            itemForm.overtimeHours * 3 *
              (IF HasHourlyRate(employee) THEN Val(employee.hourlyRate) * 160
               ELSE employee.basicSalary)
       /\ itemForm.grossPay = basicComponent + itemForm.overtimeAmount
       /\ itemForm.taxAmount * 20 = itemForm.grossPay * 3
       /\ itemForm.netPay =
            itemForm.grossPay - itemForm.taxAmount - itemForm.otherDeductions
       /\ ( /\ employee.hourlyRate = Some(Money(20))
            /\ hours = 160
            /\ itemForm.overtimeHours = 10
            /\ itemForm.otherDeductions = 0 )
          => /\ itemForm.overtimeAmount = Money(300)
             /\ itemForm.grossPay = Money(3500)
             /\ itemForm.taxAmount = Money(525)
             /\ itemForm.netPay = Money(2975)
       /\ ( /\ employee.hourlyRate = None
            /\ employee.basicSalary = Money(5000)
            /\ itemForm.overtimeHours = 0
            /\ itemForm.otherDeductions = 0 )
          => /\ itemForm.grossPay = Money(5000)
             /\ itemForm.taxAmount = Money(750)
             /\ itemForm.netPay = Money(4250)

\* C13 witness: the form holds the result for the employee with hourly rate
\* 20, 160 hours worked and 10 overtime hours.
ComputationWitness ==
  /\ EmployeeSelected
  /\ employees[itemForm.employeeId].hourlyRate = Some(Money(20))
  /\ itemForm.hoursWorked = Some(160)
  /\ itemForm.overtimeHours = 10
  /\ itemForm.otherDeductions = 0
  /\ itemForm.netPay = Money(2975)

\* The value of the setting with that key, or the default text.
SettingValue(key, default) ==
  LET ids == {i \in 1..Len(settings) : settings[i].key = key}
  IN IF ids = {} THEN default ELSE settings[CHOOSE i \in ids : TRUE].value

\* The number a setting's text stands for, as a count of twentieths (tax
\* rate) or of halves (overtime multiplier).
Twentieths(text) == CASE text = "0.15" -> 3 [] text = "0.20" -> 4
Halves(text) == CASE text = "1.5" -> 3 [] text = "2" -> 4

\* C14: a step that recalculates the form of a selected employee takes the
\* tax rate and the overtime multiplier from the settings as they are at
\* that step (defaults 0.15 and 1.5 when a setting does not exist).
ComputationUsesSettings ==
  [][(itemForm' # itemForm /\ itemForm'.employeeId \in DOMAIN employees) =>
       LET employee == employees[itemForm'.employeeId]
       IN /\ itemForm'.taxAmount * 20 =
               itemForm'.grossPay * Twentieths(SettingValue("tax_rate", "0.15"))
          /\ itemForm'.overtimeAmount * 320 =
               itemForm'.overtimeHours * Halves(SettingValue("overtime_multiplier", "1.5")) *
                 (IF HasHourlyRate(employee) THEN Val(employee.hourlyRate) * 160
                  ELSE employee.basicSalary)]_vars

\* C16: no payroll item is stored for an employee whose basic salary is 0 and
\* who has no hourly rate.
NoItemWithoutCompensationBasis ==
  \A i \in 1..Len(payrollItems) :
    LET employee == employees[payrollItems[i].employeeId]
    IN ~(employee.basicSalary = 0 /\ employee.hourlyRate = None)

\* C17: no stored payroll item has a negative basic salary or negative
\* overtime hours, and a create request carrying one is answered with an
\* error.
NoNegativeInputStored ==
  /\ \A i \in 1..Len(payrollItems) :
       payrollItems[i].basicSalary >= 0 /\ payrollItems[i].overtimeHours >= 0
  /\ \A r \in Requests :
       ( /\ req[r].op = "createPayrollItem"
         /\ req[r].pc = "done"
         /\ IsSome(req[r].arg)
         /\ \/ req[r].arg.basicSalary < 0
            \/ IsSome(req[r].arg.overtimeHours) /\ Val(req[r].arg.overtimeHours) < 0 )
       => IsError(req[r].res)

\* C19: when the form holds a calculation that started from the same
\* employee record, hours, overtime hours, other deductions, catalog and
\* settings as the calculation kept earlier, it has the same overtime
\* amount, gross pay, tax amount and net pay.
ComputationDeterministic ==
  (IsSome(earlier) /\ EmployeeSelected) =>
    LET now  == Calculation(itemForm)
        then == Val(earlier)
    IN ( /\ now.employee = then.employee
         /\ now.hoursWorked = then.hoursWorked
         /\ now.overtimeHours = then.overtimeHours
         /\ now.otherDeductions = then.otherDeductions
         /\ now.deductionTypes = then.deductionTypes
         /\ now.settings = then.settings )
       => /\ now.overtimeAmount = then.overtimeAmount
          /\ now.grossPay = then.grossPay
          /\ now.taxAmount = then.taxAmount
          /\ now.netPay = then.netPay

\* C19 witness: a calculation for an employee with pay was kept while the
\* hours field held 0; the field was emptied since, which recalculated from
\* the same employee record, hours, overtime hours, other deductions, catalog
\* and settings, and the form holds the results that were kept.
ComputationDeterministicWitness ==
  /\ IsSome(earlier)
  /\ EmployeeSelected
  /\ Val(earlier).hoursField = Some(0)
  /\ itemForm.hoursWorked = None
  /\ Val(earlier).grossPay > 0
  /\ [Calculation(itemForm) EXCEPT !.hoursField = Some(0)] = Val(earlier)

\* ------------------------------------------------------ activity logging
\* The step either appended one activity, or appended none and wrote one
\* line to console.error.
LoggedOrReported ==
  \/ Len(activities') = Len(activities) + 1 /\ consoleErrors' = consoleErrors
  \/ activities' = activities /\ consoleErrors' = consoleErrors + 1

\* C20: the step in which an approve or reject request updates the approval,
\* or a create request inserts a payroll item for a free (period, employee)
\* pair, makes that change and answers with success whether or not the
\* activity insert succeeds; a failed insert leaves the activities as they
\* are and adds one line to console.error.
ActivityLoggingBestEffort ==
  [][\A r \in Requests :
       /\ TransitionStep(r) =>
            /\ approvals'[TransitionId(r)].status =
                 (IF req[r].op = "approve" THEN "approved" ELSE "rejected")
            /\ IsSuccess(req'[r].res)
            /\ LoggedOrReported
       /\ ( /\ IsCreate(r)
            /\ req[r].pc = "insert"
            /\ req'[r].pc = "done"
            /\ RowsOfPair(payrollItems, req[r].arg) = {} ) =>
            /\ payrollItems' = Append(payrollItems, PayrollItemRow(req[r].arg))
            /\ IsSuccess(req'[r].res)
            /\ LoggedOrReported]_vars

\* C20 witness: an approve or reject request and a create request were both
\* answered with success, the approval and the payroll item are stored as
\* they asked, both activity inserts failed (console.error has two lines)
\* and the activities hold neither entry.
ActivityLoggingWitness ==
  \E r1, r2 \in Requests :
    /\ Transitioned(r1) /\ IsSuccess(req[r1].res)
    /\ approvals[TransitionId(r1)].status \in Terminal
    /\ Inserted(r2) /\ req[r2].res = Json(201)
    /\ \E i \in 1..Len(payrollItems) : payrollItems[i] = PayrollItemRow(req[r2].arg)
    /\ consoleErrors = 2
    /\ \A k \in 1..Len(activities) : activities[k].action = "create"
                                       /\ activities[k].entityType = "approval"

\* C21: the Activity log is append-only: every step leaves the entries
\* already written where they were, with the values they had, and the log
\* never gets shorter.
ActivityLogAppendOnly ==
  [][/\ Len(activities') >= Len(activities)
     /\ \A k \in 1..Len(activities) : activities'[k] = activities[k]]_vars

\* Two routes have written to the log, one after the other.
ActivityLogWitness ==
  /\ Len(activities) >= 2
  /\ activities[1].entityType = "approval"
  /\ activities[1].action = "create"
  /\ activities[2].action # "create"


\* C22: terminating an employee is a soft status change: when DELETE
\* /employees/:id has answered with a response, the employee row still
\* exists with status terminated, and the attendance rows and payroll items
\* are the ones there were.
TerminateKeepsEmployee ==
  [][\A r \in Requests :
       ( /\ req[r].op = "deleteEmployee" /\ req[r].pc = "delete"
         /\ req'[r].pc = "done" /\ IsSuccess(req'[r].res) )
       => LET id == Val(req[r].arg)
          IN /\ id \in DOMAIN employees'
             /\ employees'[id].status = "terminated"
             /\ attendance' = attendance
             /\ payrollItems' = payrollItems]_vars


\* The attendance rows of the employee and date of a record or body.
RowsOfDay(table, a) ==
  {i \in 1..Len(table) : table[i].employeeId = a.employeeId /\ table[i].date = a.date}

\* No two attendance rows share an (employee, date) pair.
AtMostOneAttendancePerDay ==
  \A i, j \in 1..Len(attendance) :
    ( /\ attendance[i].employeeId = attendance[j].employeeId
      /\ attendance[i].date = attendance[j].date ) => i = j

\* The step of a valid POST /attendance for an employee and date that
\* already have a row gives the unique-constraint error and leaves the
\* table as it is.
DuplicateAttendanceFails ==
  \A r \in Requests :
    ( /\ req[r].pc = "idle"
      /\ req'[r].op = "createAttendance"
      /\ req'[r].pc = "done"
      /\ IsSome(req'[r].arg)
      /\ IsSome(req'[r].arg.timeIn)
      /\ RowsOfDay(attendance, req'[r].arg) # {} )
    => /\ req'[r].res = DbError("employee_id_date_unique")
       /\ attendance' = attendance

\* C24: in every reachable state there is at most one attendance record per
\* (employeeId, date), and a create for an employee and date that already
\* have a record fails and leaves the first record unchanged.
AttendanceUniqueness ==
  [](AtMostOneAttendancePerDay) /\ [][DuplicateAttendanceFails]_vars

\* C24 witness: a create for an employee and date that already had a record,
\* carrying another time_in than the stored record, was answered with the
\* unique-constraint error, and the stored record is not the one of the body.
DuplicateAttendanceWitness ==
  \E r \in Requests :
    /\ req[r].op = "createAttendance"
    /\ req[r].pc = "done"
    /\ req[r].res = DbError("employee_id_date_unique")
    /\ \E i \in RowsOfDay(attendance, req[r].arg) :
         attendance[i].timeIn # Val(req[r].arg.timeIn)


\* A period is processed exactly when it carries a processed date.
ProcessedDateTracksStatus ==
  \A i \in 1..Len(payrollPeriods) :
    (payrollPeriods[i].status = "processed") <=> IsSome(payrollPeriods[i].processedDate)

\* C23: a payroll period's processedDate is unset until its status is
\* processed, set from then on, and once set it never changes.
ProcessedDateSetOnce ==
  /\ [](ProcessedDateTracksStatus)
  /\ [][\A i \in 1..Len(payrollPeriods) :
          IsSome(payrollPeriods[i].processedDate) =>
            payrollPeriods'[i].processedDate = payrollPeriods[i].processedDate]_vars


\* The allowance lines of payroll item i whose allowance type is taxable.
TaxableLinesOf(i) ==
  {a \in 1..Len(allowances) :
     /\ allowances[a].payrollItemId = i
     /\ allowanceTypes[allowances[a].allowanceTypeId].isTaxable}

\* The sum of the amounts of the allowance lines in the set as.
RECURSIVE SumOfAllowances(_)
SumOfAllowances(as) ==
  IF as = {} THEN 0
  ELSE LET a == CHOOSE x \in as : TRUE
       IN allowances[a].amount + SumOfAllowances(as \ {a})

\* C25: the gross pay of every stored payroll item of a salaried employee is
\* its basic salary plus its overtime amount (overtime hours at 1.5 times
\* basic salary / 160) plus the amounts of its taxable allowance lines.
GrossPayIncludesTaxableAllowances ==
  \A i \in 1..Len(payrollItems) :
    LET item     == payrollItems[i]
        employee == employees[item.employeeId]
    IN ~NumTruthy(employee.hourlyRate) =>
         item.grossPay =
           item.basicSalary
             + item.overtimeHours * ((3 * (employee.basicSalary \div 160)) \div 2)
             + SumOfAllowances(TaxableLinesOf(i))


\* The fields of an approval other than its status.
ApprovalPayload(a) ==
  <<a.employeeId, a.type, a.hours, a.startDate, a.endDate, a.amount, a.notes,
    a.approvedBy, a.approvedDate, a.rejectedReason>>

\* C26: the step in which an approve request runs its update changes the
\* status of the approval it names and nothing else: the other fields of
\* that approval, every other approval and the number of approvals stay as
\* they were.
ApproveChangesStatusOnly ==
  [][\A r \in Requests :
       ( /\ req[r].op = "approve" /\ req[r].pc = "update"
         /\ req'[r].pc = "done" /\ IsSuccess(req'[r].res) )
       => LET id == Val(req[r].arg)
          IN /\ Len(approvals') = Len(approvals)
             /\ approvals'[id].status = "approved"
             /\ ApprovalPayload(approvals'[id]) = ApprovalPayload(approvals[id])
             /\ \A j \in 1..Len(approvals) :
                  j # id => approvals'[j] = approvals[j]]_vars

\* C26 witness: an approve has answered for a pending overtime approval that
\* carries hours and a start date; the row is the one the request read but
\* for its status, and another approval is still pending.
ApproveChangesStatusWitness ==
  \E r \in Requests :
    /\ req[r].op = "approve" /\ req[r].pc = "done" /\ IsSuccess(req[r].res)
    /\ IsSome(req[r].local)
    /\ LET id   == Val(req[r].arg)
           read == Val(req[r].local)
       IN /\ read.status = "pending"
          /\ IsSome(read.hours) /\ IsSome(read.startDate)
          /\ approvals[id].status = "approved"
          /\ ApprovalPayload(approvals[id]) = ApprovalPayload(read)
          /\ \E j \in 1..Len(approvals) : j # id /\ approvals[j].status = "pending"


\* The step in which GET /approvals/pending answers: the list it answers
\* with holds an approval exactly when its status is pending.
PendingListIsPendingSet ==
  \A r \in Requests :
    ( /\ req[r].pc = "idle"
      /\ req'[r].op = "getPendingApprovals"
      /\ IsSuccess(req'[r].res) )
    => LET list == Val(req'[r].local)
       IN /\ list \subseteq 1..Len(approvals)
          /\ \A i \in 1..Len(approvals) :
               (i \in list) <=> (approvals[i].status = "pending")

\* An approval that is not pending does not become pending, and a pending
\* approval leaves that status only in the update step of an approve or
\* reject request that names it.
PendingLeftOnlyByDecision ==
  \A i \in 1..Len(approvals) :
    /\ approvals[i].status # "pending" => approvals'[i].status # "pending"
    /\ (approvals[i].status = "pending" /\ approvals'[i].status # "pending")
         => \E r \in Requests : TransitionStep(r) /\ TransitionId(r) = i

\* C27: the pending list is the set of the approvals whose status is
\* pending; an approval that was approved or rejected is never pending
\* again, and a pending approval stays pending until it is approved or
\* rejected.
PendingListExact ==
  [][PendingListIsPendingSet /\ PendingLeftOnlyByDecision]_vars

\* C27 witness: a pending list was answered after one approval had been
\* rejected and another approved; it holds neither of them, and it holds an
\* approval that is still pending.
PendingListWitness ==
  \E r \in Requests :
    /\ req[r].op = "getPendingApprovals" /\ IsSuccess(req[r].res)
    /\ \E i, j, k \in 1..Len(approvals) :
         /\ approvals[i].status = "rejected" /\ i \notin Val(req[r].local)
         /\ approvals[j].status = "approved" /\ j \notin Val(req[r].local)
         /\ approvals[k].status = "pending" /\ k \in Val(req[r].local)


\* The step in which a register request creates its user answers 201 and
\* logs the user in.
RegisterOutcome ==
  \A r \in Requests :
    ( /\ req[r].op = "register" /\ req[r].pc = "create" /\ req'[r].pc = "done"
      /\ Len(users') > Len(users) )
    => req'[r].res = Json(201) /\ session' = Some(Len(users'))

\* A login with the name and password of a user answers 200 and logs the
\* user in; a logout answers 200 and ends the session.
LoginLogoutOutcome ==
  \A r \in Requests :
    /\ ( /\ req[r].pc = "idle" /\ req'[r].op = "login"
         /\ \E i \in 1..Len(users) :
              /\ users[i].username = req'[r].arg.username
              /\ users[i].password.text = req'[r].arg.password )
       => IsSuccess(req'[r].res) /\ IsSome(session')
    /\ (req[r].pc = "idle" /\ req'[r].op = "logout")
       => IsSuccess(req'[r].res) /\ session' = None

\* C30: whether or not the activity entry can be written, register, login
\* and logout succeed for the user; no step creates a user and answers with
\* an error.
AuthOutcomeIgnoresActivityFailure ==
  [][RegisterOutcome /\ LoginLogoutOutcome]_vars


\* The operations of the employee, attendance, payroll, deduction,
\* allowance, setting, approval and activity routes.
GuardedOps ==
  {"deleteEmployee", "createAttendance", "createPayrollPeriod", "createPayrollItem",
   "createDeductionType", "createDeduction", "createAllowance", "setting",
   "submit", "approve", "reject", "getPendingApprovals", "getRecentActivities"}

\* The tables of the store.
store ==
  <<approvals, payrollItems, deductionTypes, deductions, settings, employees,
    attendance, payrollPeriods, allowanceTypes, allowances, users>>

\* C28: a request that arrives at one of these routes while the client's
\* session carries no user is answered 401 at once, and the step changes no
\* table of the store and writes no activity entry.
UnauthenticatedRejected ==
  [][\A r \in Requests :
       ( /\ req[r].pc = "idle" /\ req'[r].pc # "idle"
         /\ req'[r].op \in GuardedOps
         /\ session = None )
       => /\ req'[r].pc = "done"
          /\ req'[r].res = ApiError(401)
          /\ store' = store
          /\ activities' = activities]_vars

\* C28 witness: the client created an attendance record while logged in and
\* logged out; its next request to the same route was answered 401, and the
\* store holds that one record and the log no entry for the request.
UnauthenticatedRejectedWitness ==
  \E q, l, r \in Requests :
    /\ q < l /\ l < r
    /\ req[q].op = "createAttendance" /\ req[q].res = Json(201)
    /\ req[l].op = "logout" /\ IsSome(req[l].arg)
    /\ req[r].op = "createAttendance" /\ req[r].pc = "done"
    /\ req[r].res = ApiError(401)
    /\ session = None
    /\ Len(attendance) = 1
    /\ activities[Len(activities)].action = "logout"


\* No two rows of the table share the value of the column.
NoTwoAdmins == \A i, j \in 1..Len(users) :
  (users[i].username = "admin" /\ users[j].username = "admin") => i = j

NoTwoTaxRates == \A i, j \in 1..Len(settings) :
  (settings[i].key = "tax_rate" /\ settings[j].key = "tax_rate") => i = j

NoDuplicateTypes ==
  /\ \A i, j \in 1..Len(deductionTypes) :
       deductionTypes[i].name = deductionTypes[j].name => i = j
  /\ \A i, j \in 1..Len(allowanceTypes) :
       allowanceTypes[i].name = allowanceTypes[j].name => i = j

\* Request r is a run of init-db that takes this step.
InitDbStepOf(r) ==
  /\ req'[r] # req[r]
  /\ req'[r].op = "initDb"

\* Run r started after an earlier run had answered with success.
IsSecondRun(r) ==
  \E q \in Requests :
    /\ q < r
    /\ req[q].op = "initDb" /\ req[q].pc = "done" /\ IsSuccess(req[q].res)
    /\ q \notin req'[r].overlap

\* The rows of the tables init-db writes stay as they are under a step.
RowsKept ==
  /\ \A i \in 1..Len(users) : Len(users') >= i /\ users'[i] = users[i]
  /\ \A i \in 1..Len(settings) : Len(settings') >= i /\ settings'[i] = settings[i]
  /\ \A i \in 1..Len(deductionTypes) :
       Len(deductionTypes') >= i /\ deductionTypes'[i] = deductionTypes[i]
  /\ \A i \in 1..Len(allowanceTypes) :
       Len(allowanceTypes') >= i /\ allowanceTypes'[i] = allowanceTypes[i]

InitDbStepsKeepRows ==
  \A r \in Requests :
    InitDbStepOf(r) =>
      /\ RowsKept
      /\ IsSecondRun(r) =>
           /\ users' = users /\ settings' = settings
           /\ deductionTypes' = deductionTypes /\ allowanceTypes' = allowanceTypes
           /\ req'[r].pc = "done" => IsSuccess(req'[r].res)

\* C29: init-db is idempotent: in every state there is one admin user at
\* most, one tax_rate setting at most and no two deduction or allowance
\* types of the same name; no step of a run changes an existing row; and a
\* run that starts after a run has succeeded writes nothing and succeeds.
InitDbIdempotent ==
  /\ [](NoTwoAdmins /\ NoTwoTaxRates /\ NoDuplicateTypes)
  /\ [][InitDbStepsKeepRows]_vars

\* C29 witness: a run has succeeded, the tax rate was then set to 0.20, and
\* a second run has succeeded after that: the tables hold the one admin, the
\* changed tax rate and the three default types of each kind.
InitDbIdempotentWitness ==
  \E q, r \in Requests :
    /\ q < r
    /\ req[q].op = "initDb" /\ req[q].pc = "done" /\ IsSuccess(req[q].res)
    /\ req[r].op = "initDb" /\ req[r].pc = "done" /\ IsSuccess(req[r].res)
    /\ q \notin req[r].overlap
    /\ Len(users) = 1
    /\ Len(settings) = 1 /\ settings[1].value = "0.20"
    /\ Len(deductionTypes) = 3 /\ Len(allowanceTypes) = 3

====
